---- MODULE Spec2Model ----
(***************************************************************************)
(* Model of the scope-and-context resolution engine of @vyke/dency         *)
(* (injectable.ts and context.ts): the ambient context cell, the scopes    *)
(* with their instance maps, the injectable definitions with their deps    *)
(* sets, and inject / use / scope.inject / scope.use / scope.reset.        *)
(*                                                                         *)
(* Resolution is synchronous and re-entrant through nested calls only, so  *)
(* the JavaScript call stack is modelled explicitly: `stack` holds one     *)
(* frame per runInContext call that has not yet exited, and `pend` holds   *)
(* the completion (returned value or exception) travelling to the caller.  *)
(***************************************************************************)
EXTENDS Naturals, Sequences, FiniteSets

\* ---------------------------------------------------------------- bounds
\* Number of factory runs started in one behaviour.
MaxRuns == 3
\* Number of RangeErrors the host throws in one behaviour.
MaxOverflows == 1

\* ---------------------------------------------------- program constants
SINGLETON_SCOPE == 0
TRANSIENT_SCOPE == 1
SCOPED_SCOPE == 2

SCOPE_TYPE == {SINGLETON_SCOPE, TRANSIENT_SCOPE, SCOPED_SCOPE}

\* ------------------------------------------------------------- universe
\* The scopes made by createScope: the root scope and two others.
rootScope == "root"
Scopes == {rootScope, "S1", "S2"}

\* The injectables made by defineInjectable.
Injectables == {"A", "B", "C"}

\* `parentCreator` of a context that has none.
NoParent == "-"

\* Explicit arguments of a resolution; NoArg is a call without argument.
NoArg == "-"
Args == {NoArg, "a", "b"}

\* ---------------------------------------------------------------- values
\* What a creator can produce: an object (identified by the creator run
\* that made it, and remembering the argument it was built from) or the
\* falsy primitive 0.  Undefined is what Map.get and use give for "absent".
Obj(run, x, a) == [kind |-> "obj", run |-> run, inj |-> x, arg |-> a]
Zero == [kind |-> "zero", run |-> 0, inj |-> "-", arg |-> "-"]
Undefined == [kind |-> "undefined", run |-> 0, inj |-> "-", arg |-> "-"]

\* JavaScript truthiness, as used by `if (instance)` and `if (parentCreator)`.
Truthy(v) == v.kind = "obj"

\* How a creator run can end: it returns an object, returns 0, or throws.
Outcomes == {"obj", "zero", "throw"}

\* The creators of B and C can end in each of these ways; A's, which in
\* every world resolves the others first, returns an object.
OutcomesOf(x) == IF x = "A" THEN {"obj"} ELSE Outcomes

\* The value a creator run of x, with run number r and argument a, returns.
Produce(o, r, x, a) == IF o = "obj" THEN Obj(r, x, a) ELSE Zero

\* ------------------------------------------------------------------ Map
\* A Map<AnyInjectable, unknown> is a function whose domain is its key set.
EmptyMap == [x \in {} |-> Undefined]
MapHas(m, x) == x \in DOMAIN m
MapGet(m, x) == IF x \in DOMAIN m THEN m[x] ELSE Undefined
MapSet(m, x, v) == [y \in (DOMAIN m) \cup {x} |-> IF y = x THEN v ELSE m[y]]
MapSize(m) == Cardinality(DOMAIN m)

\* A Set<AnyInjectable> keeps insertion order: a sequence without repeats.
SetHas(s, x) == \E i \in 1..Len(s) : s[i] = x
SetAdd(s, x) == IF SetHas(s, x) THEN s ELSE Append(s, x)
SetElems(s) == {s[i] : i \in 1..Len(s)}

\* ------------------------------------------------------- creator bodies
\* The resolutions a creator performs while it runs, in order (its default
\* parameters): inject(y) or S.inject(y).
Call(y) == [fn |-> "inject", scope |-> "-", inj |-> y, arg |-> NoArg]
SCall(S, y) == [fn |-> "scopeInject", scope |-> S, inj |-> y, arg |-> NoArg]

\* A resolution the creator makes inside try/catch: `try { c } catch {}`.
Try(c) == [fn |-> c.fn, scope |-> c.scope, inj |-> c.inj, arg |-> c.arg,
           try |-> TRUE]
Caught(c) == "try" \in DOMAIN c
Plain(c) == [fn |-> c.fn, scope |-> c.scope, inj |-> c.inj, arg |-> c.arg]

\* The second argument of defineInjectable (DefineInjectableArgs): with a
\* scopeType, or without one.
WithScopeType(t) == [scopeType |-> t]
NoScopeType == [k \in {} |-> SINGLETON_SCOPE]

\* The definitions a behaviour starts from: each injectable's creator body
\* (b) and the options it is defined with (t).
Worlds ==
    { [b |-> [A |-> <<Call("B"), Call("C")>>, B |-> <<>>, C |-> <<>>],
       t |-> [A |-> WithScopeType(SINGLETON_SCOPE),
              B |-> WithScopeType(SCOPED_SCOPE),
              C |-> WithScopeType(TRANSIENT_SCOPE)]],
      [b |-> [A |-> <<SCall("S2", "B"), Call("C")>>, B |-> <<>>, C |-> <<>>],
       t |-> [A |-> WithScopeType(SCOPED_SCOPE),
              B |-> WithScopeType(SCOPED_SCOPE),
              C |-> NoScopeType]],
      [b |-> [A |-> <<Call("B")>>, B |-> <<Call("C")>>, C |-> <<>>],
       t |-> [A |-> WithScopeType(TRANSIENT_SCOPE),
              B |-> WithScopeType(SINGLETON_SCOPE),
              C |-> WithScopeType(SCOPED_SCOPE)]],
      [b |-> [A |-> <<Call("B")>>, B |-> <<>>, C |-> <<>>],
       t |-> [A |-> WithScopeType(TRANSIENT_SCOPE),
              B |-> WithScopeType(SCOPED_SCOPE),
              C |-> NoScopeType]],
      [b |-> [A |-> <<Try(SCall("S2", "B")), Call("C")>>, B |-> <<>>,
              C |-> <<>>],
       t |-> [A |-> WithScopeType(SINGLETON_SCOPE),
              B |-> WithScopeType(SCOPED_SCOPE),
              C |-> WithScopeType(SCOPED_SCOPE)]] }

\* The explicit argument the application passes to a resolution of x: C's
\* creator takes one, the others are resolved without.  (Inside a creator
\* body every resolution, also of C, is made without argument.)
ArgsOf(x) == IF x = "C" THEN Args \ {NoArg} ELSE {NoArg}

VARIABLES
    defs,       \* injectable -> [scopeType, creator]: the definitions
    deps,       \* injectable -> its deps Set
    instances,  \* scope -> its instances Map
    context,    \* the cell of createContext: [scope, parentCreator]
    stack,      \* frames of the runInContext calls in progress
    pend,       \* completion on its way to the caller
    nextRun,    \* number of the next creator run
    returned,   \* scope -> injectable -> values returned, since the last
                \* reset of the scope, by the resolutions that consulted
                \* its Map (transient: that ran with it as ambient scope)
    dencies,    \* the class container: DencyId -> its dency, if bound
    threw,      \* a call of the application has ended with an exception
    pair,       \* the injectable API and the injector API run side by side
    overflows   \* number of the RangeErrors the host has thrown

vars == <<defs, deps, instances, context, stack, pend, nextRun, returned,
          dencies, threw, pair, overflows>>

NoPend == [kind |-> "none", val |-> Undefined]
Ret(v) == [kind |-> "ret", val |-> v]
\* The error thrown by creator run r of x, on its way to the caller.
Exc(r, x, a) ==
    [kind |-> "exc", val |-> [kind |-> "error", run |-> r, inj |-> x, arg |-> a]]

\* Nothing is run side by side.
NoPair == <<>>

\* The container's `dencies = new WeakMap()`: no id is bound.
NoDencies == EmptyMap

\* defineInjectable with TRANSIENT_SCOPE as the default scope type.
defineInjectable_defaultTransient(creator, args) ==
    [creator |-> creator,
     scopeType |-> IF "scopeType" \in DOMAIN args THEN args.scopeType
                   ELSE TRANSIENT_SCOPE]

\* defineInjectable(creator, args = {}):
\* `const { scopeType = SINGLETON_SCOPE } = args`; deps starts empty (Init).
defineInjectable(creator, args) ==
    [creator |-> creator,
     scopeType |-> IF "scopeType" \in DOMAIN args THEN args.scopeType
                   ELSE SINGLETON_SCOPE]

\* createScope: a scope starts with an empty instances Map.
createScope == EmptyMap

\* The cell of a createContext() called without argument: undefined.
NoContext == [scope |-> "-", parentCreator |-> NoParent]

\* createContext() without its seed.
createContext_unseeded == NoContext

\* createContext({ scope: rootScope })
createContext == [scope |-> rootScope, parentCreator |-> NoParent]

Init ==
    /\ \E w \in Worlds :
          defs = [x \in Injectables |-> defineInjectable(w.b[x], w.t[x])]
    /\ deps = [x \in Injectables |-> <<>>]
    /\ instances = [S \in Scopes |-> createScope]
    /\ context = createContext
    /\ stack = <<>>
    /\ pend = NoPend
    /\ nextRun = 1
    /\ returned = [S \in Scopes |-> [x \in Injectables |-> {}]]
    /\ dencies = NoDencies
    /\ threw = FALSE
    /\ pair = NoPair
    /\ overflows = 0

\* ----------------------------------------------------------------- frames
\* One frame per runInContext call in progress.  `saved` is its oldContext.
\* kind "inject": the call made by inject, running the creator of `inj`
\* (`pc` is the next resolution of the creator's body, `tgt` the scope
\* whose Map was consulted, "none" for a transient).  kind "scopeInject":
\* the call made by scope.inject, running the inner inject.  `caught`:
\* the creator has caught the error of a resolution it made.
Frame(kind, S, x, a, saved, tgt, run) ==
    [kind |-> kind, scope |-> S, inj |-> x, arg |-> a, pc |-> 1,
     saved |-> saved, tgt |-> tgt, run |-> run, caught |-> FALSE]

Top == stack[Len(stack)]
Pop(s) == SubSeq(s, 1, Len(s) - 1)
Body(f) == defs[f.inj].creator

\* The creator of the top frame is about to perform resolution c.
InCreator ==
    /\ stack # <<>>
    /\ Top.kind = "inject"
    /\ pend.kind = "none"
    /\ Top.pc <= Len(Body(Top))

\* The application is between two calls: nothing is running and the result
\* of its last call has been received.
Idle == stack = <<>> /\ pend.kind = "none"

\* Resolution c can start: from the application when nothing is running,
\* or as the next resolution of the running creator.
CanCall(c) ==
    \/ Idle /\ c.arg \in ArgsOf(c.inj)
    \/ InCreator /\ Plain(Body(Top)[Top.pc]) = c

\* The function passed to runInContext by the top frame has returned.
FnReturned(f) ==
    \/ f.kind = "scopeInject"
    \/ f.kind = "inject" /\ f.pc = Len(Body(f)) + 2

\* ------------------------------------------------------------ getContext
\* getContext returns the cell, unless it is undefined: `if (!context)
\* throw new Error('out of context')`.
getContext == context
OutOfContext ==
    [kind |-> "exc",
     val |-> [kind |-> "error", run |-> 0, inj |-> "out of context",
              arg |-> NoArg]]

\* --------------------------------------------------------------- inject
\* Target without the transient branch and with the scoped one only: a
\* transient is looked up and stored in the root scope like a singleton.
Target_transientInRoot(x, scope) ==
    IF defs[x].scopeType = SCOPED_SCOPE THEN scope ELSE rootScope

\* Target with the transient branch left out: a transient is looked up and
\* stored like a scoped injectable.
Target_noTransientBranch(x, scope) ==
    IF defs[x].scopeType = SINGLETON_SCOPE THEN rootScope ELSE scope

\* The Map inject consults: rootScope's for a singleton, the ambient
\* scope's otherwise ("none": a transient consults no Map).
Target(x, scope) ==
    IF defs[x].scopeType = TRANSIENT_SCOPE THEN "none"
    ELSE IF defs[x].scopeType = SINGLETON_SCOPE THEN rootScope
    ELSE scope

\* A lookup that also succeeds while a creator of x is running for the Map,
\* as if the entry were made before the creator is called.
IsHit_duringCreation(tgt, x) ==
    /\ tgt # "none"
    /\ \/ Truthy(MapGet(instances[tgt], x))
       \/ \E i \in 1..Len(stack) :
             /\ stack[i].kind = "inject"
             /\ stack[i].inj = x
             /\ stack[i].tgt = tgt

\* `if (instance)`: the cached instance is returned when it is truthy.
IsHit(tgt, x) == tgt # "none" /\ Truthy(MapGet(instances[tgt], x))

\* `if (parentCreator) parentCreator.deps.add(injectable)`
AddDep(parentCreator, x) ==
    IF parentCreator # NoParent
    THEN [deps EXCEPT ![parentCreator] = SetAdd(@, x)]
    ELSE deps

\* inject(x, a) run with the cell holding ctx and the call stack stk:
\* records the edge, then either returns the cached instance or enters
\* runInContext({ scope, parentCreator: x }, ...) to run the creator.
injectBody(ctx, stk, x, a) ==
    LET tgt == Target(x, ctx.scope)
        hit == IsHit(tgt, x)
    IN  /\ deps' = AddDep(ctx.parentCreator, x)
        /\ IF hit
           THEN /\ pend' = Ret(MapGet(instances[tgt], x))
                /\ context' = ctx
                /\ stack' = stk
                /\ nextRun' = nextRun
                /\ returned' = [returned EXCEPT ![tgt][x] =
                                   @ \cup {MapGet(instances[tgt], x)}]
           ELSE /\ nextRun <= MaxRuns
                /\ pend' = NoPend
                /\ context' = [scope |-> ctx.scope, parentCreator |-> x]
                /\ stack' = Append(stk, Frame("inject", ctx.scope, x, a,
                                              ctx, tgt, nextRun))
                /\ nextRun' = nextRun + 1
                /\ returned' = returned

\* inject(x, a)
inject(x, a) ==
    /\ CanCall([fn |-> "inject", scope |-> "-", inj |-> x, arg |-> a])
    /\ IF context = NoContext
       THEN /\ pend' = OutOfContext
            /\ threw' = (threw \/ stack = <<>>)
            /\ UNCHANGED <<deps, context, stack, nextRun, returned>>
       ELSE /\ injectBody(getContext, stack, x, a)
            /\ threw' = threw
    /\ UNCHANGED <<dencies, pair, overflows, defs, instances>>

\* S.inject that installs only the parent and keeps the ambient scope.
scopeInject_keepsAmbientScope(S, x, a) ==
    /\ CanCall([fn |-> "scopeInject", scope |-> S, inj |-> x, arg |-> a])
    /\ injectBody([scope |-> getContext.scope, parentCreator |-> x],
                  Append(stack, Frame("scopeInject", S, x, a,
                                      getContext, "-", 0)),
                  x, a)
    /\ UNCHANGED <<dencies, threw, pair, overflows, defs, instances>>

\* S.inject that does not pass its arguments on: `inject(injectable)`.
scopeInject_dropsArguments(S, x, a) ==
    /\ CanCall([fn |-> "scopeInject", scope |-> S, inj |-> x, arg |-> a])
    /\ injectBody([scope |-> S, parentCreator |-> x],
                  Append(stack, Frame("scopeInject", S, x, a,
                                      getContext, "-", 0)),
                  x, NoArg)
    /\ UNCHANGED <<dencies, threw, pair, overflows, defs, instances>>

\* S.inject whose runInContext remembers the binding it installs instead of
\* the one it replaces.
scopeInject_savesNewBinding(S, x, a) ==
    /\ CanCall([fn |-> "scopeInject", scope |-> S, inj |-> x, arg |-> a])
    /\ injectBody([scope |-> S, parentCreator |-> x],
                  Append(stack, Frame("scopeInject", S, x, a,
                                      [scope |-> S, parentCreator |-> x],
                                      "-", 0)),
                  x, a)
    /\ UNCHANGED <<dencies, threw, pair, overflows, defs, instances>>

\* S.inject(x, a): runInContext({ scope: S, parentCreator: x },
\*                              () => inject(x, a))
scopeInject(S, x, a) ==
    /\ CanCall([fn |-> "scopeInject", scope |-> S, inj |-> x, arg |-> a])
    /\ injectBody([scope |-> S, parentCreator |-> x],
                  Append(stack, Frame("scopeInject", S, x, a,
                                      getContext, "-", 0)),
                  x, a)
    /\ UNCHANGED <<dencies, threw, pair, overflows, defs, instances>>

\* The running creator receives the value of the resolution it made and
\* goes on to its next one.
creatorResume ==
    /\ stack # <<>>
    /\ Top.kind = "inject"
    /\ Top.pc <= Len(Body(Top))
    /\ pend.kind = "ret"
    /\ stack' = [stack EXCEPT ![Len(stack)].pc = @ + 1]
    /\ pend' = NoPend
    /\ UNCHANGED <<dencies, threw, pair, overflows, defs, deps, instances, context, nextRun, returned>>

\* creatorEnd storing a placeholder for the failed creator: a throw leaves
\* an entry behind.
creatorEnd_marksFailure(o) ==
    /\ stack # <<>>
    /\ Top.kind = "inject"
    /\ Top.pc = Len(Body(Top)) + 1
    /\ pend.kind = "none"
    /\ o \in OutcomesOf(Top.inj)
    /\ IF o = "throw"
       THEN /\ pend' = Exc(Top.run, Top.inj, Top.arg)
            /\ instances' =
                  IF Top.tgt = "none" THEN instances
                  ELSE [instances EXCEPT ![Top.tgt] =
                           MapSet(@, Top.inj, Obj(Top.run, Top.inj, Top.arg))]
            /\ UNCHANGED <<stack, returned>>
       ELSE LET v == Produce(o, Top.run, Top.inj, Top.arg)
                T == IF Top.tgt = "none" THEN Top.scope ELSE Top.tgt
            IN  /\ pend' = Ret(v)
                /\ stack' = [stack EXCEPT ![Len(stack)].pc = @ + 1]
                /\ instances' =
                      IF Top.tgt = "none" THEN instances
                      ELSE [instances EXCEPT ![Top.tgt] = MapSet(@, Top.inj, v)]
                /\ returned' = [returned EXCEPT ![T][Top.inj] = @ \cup {v}]
    /\ UNCHANGED <<dencies, threw, pair, overflows, defs, deps, context, nextRun>>

\* The running creator ends.  When it returns, a non-transient inject
\* stores the new instance in the Map it consulted
\* (`instances.set(injectable, newInstance)`) and returns it; when it
\* throws, nothing is stored.
creatorEnd(o) ==
    /\ stack # <<>>
    /\ Top.kind = "inject"
    /\ Top.pc = Len(Body(Top)) + 1
    /\ pend.kind = "none"
    /\ o \in OutcomesOf(Top.inj)
    /\ IF o = "throw"
       THEN /\ pend' = Exc(Top.run, Top.inj, Top.arg)
            /\ UNCHANGED <<stack, instances, returned>>
       ELSE LET v == Produce(o, Top.run, Top.inj, Top.arg)
            IN  /\ pend' = Ret(v)
                /\ stack' = [stack EXCEPT ![Len(stack)].pc = @ + 1]
                /\ IF Top.tgt = "none"
                   THEN /\ instances' = instances
                        /\ returned' = [returned EXCEPT
                                           ![Top.scope][Top.inj] = @ \cup {v}]
                   ELSE /\ instances' = [instances EXCEPT ![Top.tgt] =
                                            MapSet(@, Top.inj, v)]
                        /\ returned' = [returned EXCEPT
                                           ![Top.tgt][Top.inj] = @ \cup {v}]
    /\ UNCHANGED <<dencies, threw, pair, overflows, defs, deps, context, nextRun>>

\* Normal exit that leaves the cell as fn left it: no `context = oldContext`.
runInContextReturn_keepsBinding ==
    /\ stack # <<>>
    /\ pend.kind = "ret"
    /\ FnReturned(Top)
    /\ stack' = Pop(stack)
    /\ UNCHANGED <<dencies, threw, pair, overflows, defs, deps, instances, context, pend, nextRun,
                   returned>>

\* ---------------------------------------------------------- runInContext
\* Its entry (`oldContext = context; context = newContext`) is part of the
\* calls above.  Normal exit: fn has returned, `context = oldContext`.
runInContextReturn ==
    /\ stack # <<>>
    /\ pend.kind = "ret"
    /\ FnReturned(Top)
    /\ context' = Top.saved
    /\ stack' = Pop(stack)
    /\ UNCHANGED <<dencies, threw, pair, overflows, defs, deps, instances, pend, nextRun, returned>>

\* The exception of the resolution the running creator made has reached a
\* try/catch of the creator.
CatchesHere ==
    /\ stack # <<>>
    /\ Top.kind = "inject"
    /\ pend.kind = "exc"
    /\ Top.pc <= Len(Body(Top))
    /\ Caught(Body(Top)[Top.pc])

\* The creator catches the exception and goes on to its next resolution;
\* the cell stays as the failed runInContext calls left it.
creatorCatch ==
    /\ CatchesHere
    /\ stack' = [stack EXCEPT ![Len(stack)].pc = @ + 1,
                              ![Len(stack)].caught = TRUE]
    /\ pend' = NoPend
    /\ UNCHANGED <<dencies, threw, pair, overflows, defs, deps, instances, context, nextRun, returned>>

\* Exit by exception: fn() threw, so the assignment `context = oldContext`
\* after it is never reached and the exception goes on to the caller.
runInContextThrow ==
    /\ stack # <<>>
    /\ pend.kind = "exc"
    /\ ~CatchesHere
    /\ stack' = Pop(stack)
    /\ threw' = (threw \/ stack' = <<>>)
    /\ UNCHANGED <<dencies, pair, overflows, defs, deps, instances, context, pend, nextRun,
                   returned>>

\* The application receives what its call returned or threw (it catches the
\* exception) and goes on.
callCompleted ==
    /\ stack = <<>>
    /\ pend.kind # "none"
    /\ pend' = NoPend
    /\ UNCHANGED <<dencies, threw, pair, overflows, defs, deps, instances, context, stack, nextRun, returned>>

\* ------------------------------------------------------------------- use
\* use(x) with the cell holding ctx: the cached instance when truthy,
\* undefined otherwise.
useBody(ctx, x) ==
    LET tgt == IF defs[x].scopeType = SINGLETON_SCOPE
               THEN rootScope ELSE ctx.scope
        instance == MapGet(instances[tgt], x)
    IN  IF Truthy(instance) THEN instance ELSE Undefined

\* use(x), called by the application.
use(x) ==
    /\ Idle
    /\ IF context = NoContext
       THEN pend' = OutOfContext /\ threw' = TRUE
       ELSE pend' = Ret(useBody(getContext, x)) /\ threw' = threw
    /\ UNCHANGED <<dencies, pair, overflows, defs, deps, instances, context, stack, nextRun,
                   returned>>

\* S.use(x): runInContext({ scope: S }, () => use(x)); use cannot throw,
\* so the cell is back to its old content when S.use returns.
scopeUse(S, x) ==
    /\ Idle
    /\ pend' = Ret(useBody([scope |-> S, parentCreator |-> NoParent], x))
    /\ UNCHANGED <<dencies, threw, pair, overflows, defs, deps, instances, context, stack, nextRun, returned>>

\* ----------------------------------------------------------------- reset
\* reset clearing one shared Map: every scope loses its instances.
reset_clearsEveryScope(S) ==
    /\ Idle
    /\ instances' = [U \in Scopes |-> EmptyMap]
    /\ returned' = [U \in Scopes |-> [x \in Injectables |-> {}]]
    /\ pend' = NoPend
    /\ UNCHANGED <<dencies, threw, pair, overflows, defs, deps, context, stack, nextRun>>

\* reset that spares the singletons: only the other entries are removed.
reset_keepsSingletons(S) ==
    /\ Idle
    /\ instances' = [instances EXCEPT ![S] =
                        [x \in {y \in DOMAIN @ :
                                  defs[y].scopeType = SINGLETON_SCOPE}
                            |-> @[x]]]
    /\ returned' = [returned EXCEPT ![S] = [x \in Injectables |-> {}]]
    /\ pend' = NoPend
    /\ UNCHANGED <<dencies, threw, pair, overflows, defs, deps, context, stack, nextRun>>

\* reset that also forgets the recorded edges.
reset_clearsDeps(S) ==
    /\ Idle
    /\ instances' = [instances EXCEPT ![S] = EmptyMap]
    /\ returned' = [returned EXCEPT ![S] = [x \in Injectables |-> {}]]
    /\ deps' = [x \in Injectables |-> <<>>]
    /\ pend' = NoPend
    /\ UNCHANGED <<dencies, threw, pair, overflows, defs, context, stack, nextRun>>

\* S.reset(): instances.clear()
reset(S) ==
    /\ Idle
    /\ instances' = [instances EXCEPT ![S] = EmptyMap]
    /\ returned' = [returned EXCEPT ![S] = [x \in Injectables |-> {}]]
    /\ pend' = NoPend
    /\ UNCHANGED <<dencies, threw, pair, overflows, defs, deps, context, stack, nextRun>>

Next ==
    \/ \E x \in Injectables : \E a \in Args : inject(x, a)
    \/ \E S \in Scopes : \E x \in Injectables : \E a \in Args :
          scopeInject(S, x, a)
    \/ creatorResume
    \/ \E o \in Outcomes : creatorEnd(o)
    \/ runInContextReturn
    \/ runInContextThrow
    \/ creatorCatch
    \/ callCompleted
    \/ \E x \in Injectables : use(x)
    \/ \E S \in Scopes : \E x \in Injectables : scopeUse(S, x)
    \/ \E S \in Scopes : reset(S)

Spec == Init /\ [][Next]_vars

\* ======================================================= class container
\* DencyContainer (index.ts): ids are bound to classes with bindClass and
\* resolved with use (exported as useDency).  Its behaviours are those of
\* ContainerSpec; `stack` then holds one frame per use call in progress,
\* `pend` the completion on its way to the caller and `nextRun` numbers the
\* constructor calls.

\* The ids made by create, and the dependency lists they are bound with
\* (an id depends on later ids only, so resolution is finite).
DencyIds == {"I1", "I2", "I3"}
DepsOf(id) ==
    IF id = "I1" THEN {<<>>, <<"I2">>, <<"I2", "I3">>}
    ELSE IF id = "I2" THEN {<<>>, <<"I3">>}
    ELSE {<<>>}

Classes == {"Car", "Engine"}

\* DencyInstanceType, and a bindClass call that leaves the parameter out.
InstanceTypes == {"singleton", "transient", "scoped"}
NoInstanceType == "-"

\* How a constructor call can end.
ConstructorOutcomes == {"obj", "throw"}

\* new Error(`"${id.name}" dency not found`), new Error('not implemented'),
\* and the error thrown by constructor call r of id.
NotFound(id) ==
    [kind |-> "exc",
     val |-> [kind |-> "not found", run |-> 0, inj |-> id, arg |-> "-"]]
NotImplemented ==
    [kind |-> "exc",
     val |-> [kind |-> "not implemented", run |-> 0, inj |-> "-", arg |-> "-"]]
ConstructorError(r, id) ==
    [kind |-> "exc",
     val |-> [kind |-> "error", run |-> r, inj |-> id, arg |-> "-"]]

\* The frame of a use(id) call: `vals` are the dependencies resolved so far.
UseFrame(id) == [kind |-> "use", id |-> id, pc |-> 1, vals |-> <<>>]

\* new dency.Class(...deps) in constructor call r: the instance remembers
\* the instances it was built from.
Construct(r, id, vals) ==
    Obj(r, id, [i \in 1..Len(vals) |-> vals[i].run])

ContainerInit ==
    /\ defs = [x \in Injectables |-> defineInjectable(<<>>, NoScopeType)]
    /\ deps = [x \in Injectables |-> <<>>]
    /\ instances = [S \in Scopes |-> createScope]
    /\ context = createContext
    /\ stack = <<>>
    /\ pend = NoPend
    /\ nextRun = 1
    /\ returned = [S \in Scopes |-> [x \in Injectables |-> {}]]
    /\ dencies = NoDencies
    /\ threw = FALSE
    /\ pair = NoPair
    /\ overflows = 0

\* bindClass(id, Class, deps, instanceType = 'singleton'): the id gets a new
\* dency, without instance, in place of the one it may have had.
bindClass(id, Class, ds, instanceType) ==
    /\ Idle
    /\ dencies' = MapSet(dencies, id,
          [Class |-> Class, deps |-> ds, type |-> "class",
           instanceType |-> IF instanceType = NoInstanceType
                            THEN "singleton" ELSE instanceType,
           instance |-> Undefined])
    /\ UNCHANGED <<threw, pair, overflows, defs, deps, instances, context, stack, pend, nextRun,
                   returned>>

\* use(id) can start: called by the application, or as the next element of
\* `dency.deps.map((id) => this.use(id))` of the running use.
CanUse(id) ==
    \/ Idle
    \/ /\ stack # <<>>
       /\ pend.kind = "none"
       /\ Top.pc <= Len(dencies[Top.id].deps)
       /\ dencies[Top.id].deps[Top.pc] = id

\* #getDency failing with the catch-all error of use for a missing id.
getDency_wrongError(id) ==
    IF MapHas(dencies, id) THEN Ret(dencies[id]) ELSE NotImplemented

\* #getDency(id): the dency of id, or the not-found error.
getDency(id) == IF MapHas(dencies, id) THEN Ret(dencies[id]) ELSE NotFound(id)

\* use(id) looking at the stored instance first: a stored 'singleton' is
\* returned without resolving its dependencies.
useDency_instanceFirst(id) ==
    /\ CanUse(id)
    /\ IF getDency(id).kind = "exc"
       THEN /\ pend' = getDency(id)
            /\ stack' = stack
       ELSE IF /\ dencies[id].instanceType = "singleton"
               /\ Truthy(dencies[id].instance)
       THEN /\ pend' = Ret(dencies[id].instance)
            /\ stack' = stack
       ELSE /\ pend' = NoPend
            /\ stack' = Append(stack, UseFrame(id))
    /\ UNCHANGED <<dencies, threw, pair, overflows, defs, deps, instances, context, nextRun, returned>>

\* use(id), up to the resolution of its first dependency.
useDency(id) ==
    /\ CanUse(id)
    /\ IF getDency(id).kind = "exc"
       THEN /\ pend' = getDency(id)
            /\ stack' = stack
       ELSE /\ pend' = NoPend
            /\ stack' = Append(stack, UseFrame(id))
    /\ UNCHANGED <<dencies, threw, pair, overflows, defs, deps, instances, context, nextRun, returned>>

\* The running use receives the instance of a dependency and goes on to
\* the next one.
useDepResolved ==
    /\ stack # <<>>
    /\ Top.kind = "use"
    /\ pend.kind = "ret"
    /\ stack' = [stack EXCEPT ![Len(stack)].pc = @ + 1,
                              ![Len(stack)].vals = Append(@, pend.val)]
    /\ pend' = NoPend
    /\ UNCHANGED <<dencies, threw, pair, overflows, defs, deps, instances, context, nextRun, returned>>

\* An error leaves the running use: nothing catches it.
useThrow ==
    /\ stack # <<>>
    /\ pend.kind = "exc"
    /\ stack' = Pop(stack)
    /\ UNCHANGED <<dencies, threw, pair, overflows, defs, deps, instances, context, pend, nextRun,
                   returned>>

\* `new dency.Class(...deps)` by the running use, ending as o: the instance,
\* or the constructor's error (constructor call number nextRun).
Constructed(o) ==
    IF o = "obj" THEN Ret(Construct(nextRun, Top.id, Top.vals))
    ELSE ConstructorError(nextRun, Top.id)

\* useEnd constructing a 'singleton' on every call: the stored instance is
\* not looked at.
useEnd_alwaysConstructs(o) ==
    /\ stack # <<>>
    /\ Top.kind = "use"
    /\ pend.kind = "none"
    /\ Top.pc = Len(dencies[Top.id].deps) + 1
    /\ LET dency == dencies[Top.id]
       IN  IF dency.instanceType # "scoped"
           THEN /\ nextRun <= MaxRuns
                /\ nextRun' = nextRun + 1
                /\ pend' = Constructed(o)
                /\ stack' = IF o = "obj" THEN Pop(stack) ELSE stack
                /\ dencies' = IF o = "obj" /\ dency.instanceType = "singleton"
                              THEN [dencies EXCEPT ![Top.id].instance =
                                       Constructed(o).val]
                              ELSE dencies
           ELSE /\ o = "obj"
                /\ nextRun' = nextRun
                /\ dencies' = dencies
                /\ pend' = NotImplemented
                /\ stack' = stack
    /\ UNCHANGED <<threw, pair, overflows, defs, deps, instances, context, returned>>

\* useEnd treating a 'transient' as a 'singleton': the instance is stored
\* on the dency and returned again by the next use.
useEnd_keepsTransient(o) ==
    /\ stack # <<>>
    /\ Top.kind = "use"
    /\ pend.kind = "none"
    /\ Top.pc = Len(dencies[Top.id].deps) + 1
    /\ LET dency == dencies[Top.id]
       IN  IF dency.instanceType # "scoped" /\ ~Truthy(dency.instance)
           THEN /\ nextRun <= MaxRuns
                /\ nextRun' = nextRun + 1
                /\ pend' = Constructed(o)
                /\ stack' = IF o = "obj" THEN Pop(stack) ELSE stack
                /\ dencies' = IF o = "obj"
                              THEN [dencies EXCEPT ![Top.id].instance =
                                       Constructed(o).val]
                              ELSE dencies
           ELSE /\ o = "obj"
                /\ nextRun' = nextRun
                /\ dencies' = dencies
                /\ IF dency.instanceType # "scoped"
                   THEN pend' = Ret(dency.instance) /\ stack' = Pop(stack)
                   ELSE pend' = NotImplemented /\ stack' = stack
    /\ UNCHANGED <<threw, pair, overflows, defs, deps, instances, context, returned>>

\* The running use has resolved all its dependencies.  A 'singleton'
\* returns `dency.instance || new dency.Class(...deps)` and stores it in
\* dency.instance; a 'transient' returns `new dency.Class(...deps)`; a
\* 'scoped' falls through to `throw new Error('not implemented')`.
useEnd(o) ==
    /\ stack # <<>>
    /\ Top.kind = "use"
    /\ pend.kind = "none"
    /\ Top.pc = Len(dencies[Top.id].deps) + 1
    /\ LET dency == dencies[Top.id]
           build == \/ dency.instanceType = "transient"
                    \/ /\ dency.instanceType = "singleton"
                       /\ ~Truthy(dency.instance)
       IN  IF build
           THEN /\ nextRun <= MaxRuns
                /\ nextRun' = nextRun + 1
                /\ pend' = Constructed(o)
                /\ stack' = IF o = "obj" THEN Pop(stack) ELSE stack
                /\ dencies' = IF o = "obj" /\ dency.instanceType = "singleton"
                              THEN [dencies EXCEPT ![Top.id].instance =
                                       Constructed(o).val]
                              ELSE dencies
           ELSE /\ o = "obj"
                /\ nextRun' = nextRun
                /\ dencies' = dencies
                /\ IF dency.instanceType = "singleton"
                   THEN pend' = Ret(dency.instance) /\ stack' = Pop(stack)
                   ELSE pend' = NotImplemented /\ stack' = stack
    /\ UNCHANGED <<threw, pair, overflows, defs, deps, instances, context, returned>>

ContainerNext ==
    \/ \E id \in DencyIds : \E K \in Classes : \E ds \in DepsOf(id) :
          \E t \in InstanceTypes \cup {NoInstanceType} :
             bindClass(id, K, ds, t)
    \/ \E id \in DencyIds : useDency(id)
    \/ useDepResolved
    \/ \E o \in ConstructorOutcomes : useEnd(o)
    \/ useThrow
    \/ callCompleted

ContainerSpec == ContainerInit /\ [][ContainerNext]_vars

\* =========================================================== termination
\* The engine run on its own, one call of the application after the other,
\* over creators that never throw, some of them on a dependency cycle.  The
\* code is synchronous: a call, once made, runs on without interruption.
\* The host may throw its RangeError at any call, as often as the bound
\* MaxOverflows allows; the error leaves the nested runInContext calls like
\* any other error.  On a cycle the calls nest until the host does so: the
\* bound MaxRuns on the creator runs stands for the depth at which the
\* host's stack is used up at the latest.

\* The second argument of defineInjectable: each scopeType, or none.
Lifetimes ==
    {WithScopeType(SINGLETON_SCOPE), WithScopeType(SCOPED_SCOPE),
     WithScopeType(TRANSIENT_SCOPE), NoScopeType}

\* Graphs with a cycle: A's creator injects B, in the ambient scope or
\* through S1.inject, and B's creator injects A, with every pair of
\* lifetimes.
CyclicWorlds ==
    { [b |-> [A |-> <<c>>, B |-> <<Call("A")>>, C |-> <<>>],
       t |-> [A |-> tA, B |-> tB, C |-> WithScopeType(SCOPED_SCOPE)]] :
         c \in {Call("B"), SCall("S1", "B")},
         tA \in Lifetimes, tB \in Lifetimes }

\* The injectables x's creator resolves, and those reached from x.
Calls(x) == {defs[x].creator[j].inj : j \in 1..Len(defs[x].creator)}
RECURSIVE ReachIn(_, _)
ReachIn(xs, n) ==
    IF n = 0 THEN xs
    ELSE ReachIn(xs \cup UNION {Calls(y) : y \in xs}, n - 1)
ReachFrom(x) == ReachIn(Calls(x), Cardinality(Injectables))
OnCycle(x) == x \in ReachFrom(x)

\* x and everything its resolution can reach is off every cycle.
Acyclic(x) == \A y \in {x} \cup ReachFrom(x) : ~OnCycle(y)

\* The application starts a resolution of x only when the runs it can need
\* are left (on a cycle: the runs of one turn), so that the bound on runs
\* never stops an acyclic resolution half-way and a cyclic one gets round
\* its cycle once; and one that reaches a cycle only when a throw of the
\* host is left, which is the only way it ends.
CanStart(x) ==
    Idle => /\ nextRun + Cardinality({x} \cup ReachFrom(x)) - 1 <= MaxRuns
            /\ ~Acyclic(x) => overflows < MaxOverflows

\* The host's `RangeError: Maximum call stack size exceeded`.
RangeError ==
    [kind |-> "exc",
     val |-> [kind |-> "error", run |-> 0,
              inj |-> "Maximum call stack size exceeded", arg |-> NoArg]]

\* The call stack of the host.  Every call takes a frame, and the host
\* throws the RangeError at the call that finds no room for its frame.  How
\* much room there is at a call is the affair of the host and of the
\* application, which may call with its own frames on the stack: any call
\* may be the one that fails.
\*
\* The host throws in resolution c, made by the application or by the
\* running creator, at point p of it.  What c has done before the failing
\* call stays done: the edge once deps.add has returned, the cell once
\* runInContext has assigned it.
\*   inject       1: inject, getContext, deps.add        (nothing done)
\*                2: instances.get, runInContext         (edge recorded)
\*                3: arrow function, create, creator     (and cell assigned)
\*   scope.inject 1: scope.inject, runInContext          (nothing done)
\*                2: arrow function, inject, getContext, deps.add
\*                                                       (cell assigned)
\*                3: instances.get, runInContext, arrow function, create,
\*                   creator                       (and self edge recorded)
\* A resolution that finds its instance returns it after instances.get and
\* makes none of the later calls: inject then has no point 3 (that of
\* scope.inject has, the cell being assigned by the wrapper).
stackOverflow(c, p) ==
    /\ overflows < MaxOverflows
    /\ overflows' = overflows + 1
    /\ CanCall(c)
    /\ LET wrapped == c.fn = "scopeInject"
           ctx == IF wrapped
                  THEN [scope |-> c.scope, parentCreator |-> c.inj]
                  ELSE getContext
           tgt == Target(c.inj, ctx.scope)
           last == IF wrapped THEN 2 ELSE 1
       IN  /\ (~wrapped /\ IsHit(tgt, c.inj)) => p < 3
           /\ deps' = IF p > last THEN AddDep(ctx.parentCreator, c.inj)
                      ELSE deps
           /\ context' = IF p >= 4 - last
                         THEN [scope |-> ctx.scope, parentCreator |-> c.inj]
                         ELSE context
    /\ pend' = RangeError
    /\ threw' = (threw \/ stack = <<>>)
    /\ UNCHANGED <<dencies, pair, defs, instances, stack, nextRun, returned>>

\* The host throws in use(x), called by the application: use assigns
\* nothing.
useOverflow(x) ==
    /\ overflows < MaxOverflows
    /\ overflows' = overflows + 1
    /\ Idle
    /\ pend' = RangeError
    /\ threw' = TRUE
    /\ UNCHANGED <<dencies, pair, defs, deps, instances, context, stack,
                   nextRun, returned>>

\* The host throws in S.use(x): at scope.use or runInContext, or, the cell
\* being assigned ({ scope: S }, without parentCreator), at the arrow
\* function, use, getContext or instances.get.
scopeUseOverflow(S, x, assigned) ==
    /\ overflows < MaxOverflows
    /\ overflows' = overflows + 1
    /\ Idle
    /\ context' = IF assigned THEN [scope |-> S, parentCreator |-> NoParent]
                  ELSE context
    /\ pend' = RangeError
    /\ threw' = TRUE
    /\ UNCHANGED <<dencies, pair, defs, deps, instances, stack, nextRun,
                   returned>>

\* The host throws in S.reset(), before instances.clear() has run.
resetOverflow(S) ==
    /\ overflows < MaxOverflows
    /\ overflows' = overflows + 1
    /\ Idle
    /\ pend' = RangeError
    /\ threw' = TRUE
    /\ UNCHANGED <<dencies, pair, defs, deps, instances, context, stack,
                   nextRun, returned>>

\* The resolutions there are: inject(x, a) and S.inject(x, a).
Resolutions ==
    [fn : {"inject"}, scope : {"-"}, inj : Injectables, arg : Args]
        \cup [fn : {"scopeInject"}, scope : Scopes, inj : Injectables,
              arg : Args]

TerminationInit ==
    /\ \E w \in Worlds \cup CyclicWorlds :
          defs = [x \in Injectables |-> defineInjectable(w.b[x], w.t[x])]
    /\ deps = [x \in Injectables |-> <<>>]
    /\ instances = [S \in Scopes |-> createScope]
    /\ context = createContext
    /\ stack = <<>>
    /\ pend = NoPend
    /\ nextRun = 1
    /\ returned = [S \in Scopes |-> [x \in Injectables |-> {}]]
    /\ dencies = NoDencies
    /\ threw = FALSE
    /\ pair = NoPair
    /\ overflows = 0

\* The arguments the application passes: none, or one for the creator of C.
TerminationArgs == {NoArg, "a"}

\* The calls of the application (inject, S.inject, use, S.use, S.reset; a
\* resolution only while the runs it can need are left), the steps of a
\* resolution whose creators return an object, and the throws of the host.
TerminationNext ==
    \/ \E x \in Injectables : \E a \in TerminationArgs :
          CanStart(x) /\ inject(x, a)
    \/ \E S \in Scopes : \E x \in Injectables : \E a \in TerminationArgs :
          CanStart(x) /\ scopeInject(S, x, a)
    \/ creatorResume
    \/ \E o \in {"obj"} : creatorEnd(o)
    \/ runInContextReturn
    \/ \E c \in Resolutions : \E p \in 1..3 : stackOverflow(c, p)
    \/ runInContextThrow
    \/ creatorCatch
    \/ callCompleted
    \/ \E x \in Injectables : use(x)
    \/ \E S \in Scopes : \E x \in Injectables : scopeUse(S, x)
    \/ \E x \in Injectables : useOverflow(x)
    \/ \E S \in Scopes : \E x \in Injectables : \E assigned \in BOOLEAN :
          scopeUseOverflow(S, x, assigned)
    \/ \E S \in Scopes : reset(S)
    \/ \E S \in Scopes : resetOverflow(S)

\* A step of a resolution in progress.
Running == stack # <<>> /\ TerminationNext

TerminationSpec ==
    TerminationInit /\ [][TerminationNext]_vars /\ WF_vars(Running)

\* ====================================================== the two engines
\* injectable.ts (defineInjectable, inject, scope.inject) and dency.ts
\* (defineDency: the injector called with { scope, props }) run side by
\* side on the same calls.  Each call is evaluated as a whole; `pair.i` is
\* the state of injectable.ts and `pair.d` that of dency.ts: the instances
\* Maps, the deps Sets, the cell, the number of the next creator run and the
\* completion of the last call.  `pair.fn[x]` is the creator function x is
\* defined from: dency.ts keys its Maps and Sets by it.  `pair.reach[x]` is
\* x with the injectables the creators can resolve from it.

\* A call of the injector without `scope`.
NoScopeArg == "-"

\* How the creator runs of one call end, for each injectable.
Oracles == {o \in [Injectables -> Outcomes] : \A x \in Injectables : o[x] \in OutcomesOf(x)}

\* Every definition has a creator function of its own, or B and C are two
\* definitions made from one function.
OwnCreators == [A |-> "fA", B |-> "fB", C |-> "fC"]
SharedCreator == [A |-> "fA", B |-> "fB", C |-> "fB"]

\* The key of x in the Maps and Sets: the injectable (`instances.get(
\* injectable)`) or the creator (`instances.get(creator)`).
KeyOf(api, x) == IF api = "dency" THEN pair.fn[x] ELSE x

\* `if (parent) parent.deps.add(key)`
AddDepEval(ds, parent, key) ==
    IF parent # NoParent THEN [ds EXCEPT ![parent] = SetAdd(@, key)] ELSE ds

RECURSIVE resolveEval(_, _, _, _), createEval(_, _, _, _, _, _, _)

\* create(): the creator makes its resolutions one after the other (an error
\* ends it unless the resolution is inside try/catch), then returns or
\* throws as the oracle says for x.
createEval(api, st, x, a, run, pc, o) ==
    LET body == defs[x].creator
        oc == o[x]
    IN  IF pc > Len(body)
        THEN [st EXCEPT !.out = IF oc = "throw" THEN Exc(run, x, a)
                                ELSE Ret(Produce(oc, run, x, a))]
        ELSE LET r == resolveEval(api, st, body[pc], o)
             IN  IF r.out.kind = "exc" /\ ~Caught(body[pc]) THEN r
                 ELSE createEval(api, [r EXCEPT !.out = NoPend], x, a, run,
                                 pc + 1, o)

\* runInContext(newContext, () => { const v = create(); instances.set(key,
\* v); return v }), without the set when tgt is "none": the cell is put
\* back only when fn returns.
runInContextEval(api, st, newContext, x, a, tgt, o) ==
    LET oldContext == st.ctx
        r == createEval(api, [st EXCEPT !.ctx = newContext, !.n = @ + 1],
                        x, a, st.n, 1, o)
    IN  IF r.out.kind = "exc" THEN r
        ELSE [r EXCEPT !.ctx = oldContext,
                       !.inst = IF tgt = "none" THEN @
                                ELSE [@ EXCEPT ![tgt] =
                                         MapSet(@, KeyOf(api, x), r.out.val)]]

\* inject(x, a) of injectable.ts.
injectEval(st, x, a, o) ==
    LET ctx == st.ctx
        s1 == [st EXCEPT !.deps = AddDepEval(@, ctx.parentCreator, x)]
        new == [scope |-> ctx.scope, parentCreator |-> x]
        tgt == Target(x, ctx.scope)
    IN  IF tgt = "none"
        THEN runInContextEval("injectable", s1, new, x, a, tgt, o)
        ELSE IF Truthy(MapGet(s1.inst[tgt], x))
        THEN [s1 EXCEPT !.out = Ret(MapGet(s1.inst[tgt], x))]
        ELSE runInContextEval("injectable", s1, new, x, a, tgt, o)

\* S.inject(x, a) of injectable.ts.
scopeInjectEval(st, S, x, a, o) ==
    LET oldContext == st.ctx
        r == injectEval([st EXCEPT !.ctx = [scope |-> S, parentCreator |-> x]],
                        x, a, o)
    IN  IF r.out.kind = "exc" THEN r ELSE [r EXCEPT !.ctx = oldContext]

\* The injector that takes the ambient scope whatever `scope` it is given.
injectorEval_ignoresScope(st, x, S, a, o) ==
    LET ctx == st.ctx
        s1 == [st EXCEPT !.deps = AddDepEval(@, ctx.parentInjector,
                                             KeyOf("dency", x))]
        scope == ctx.scope
        new == [scope |-> scope, parentInjector |-> x]
        tgt == Target(x, scope)
    IN  IF tgt = "none"
        THEN runInContextEval("dency", s1, new, x, a, tgt, o)
        ELSE IF Truthy(MapGet(s1.inst[tgt], KeyOf("dency", x)))
        THEN [s1 EXCEPT !.out = Ret(MapGet(s1.inst[tgt], KeyOf("dency", x)))]
        ELSE runInContextEval("dency", s1, new, x, a, tgt, o)

\* The injector of dency.ts called with { scope: S, props: a } (S is
\* NoScopeArg when no scope is given).
injectorEval(st, x, S, a, o) ==
    LET ctx == st.ctx
        s1 == [st EXCEPT !.deps = AddDepEval(@, ctx.parentInjector,
                                             KeyOf("dency", x))]
        scope == IF S = NoScopeArg THEN ctx.scope ELSE S
        new == [scope |-> scope, parentInjector |-> x]
        tgt == Target(x, scope)
    IN  IF tgt = "none"
        THEN runInContextEval("dency", s1, new, x, a, tgt, o)
        ELSE IF Truthy(MapGet(s1.inst[tgt], KeyOf("dency", x)))
        THEN [s1 EXCEPT !.out = Ret(MapGet(s1.inst[tgt], KeyOf("dency", x)))]
        ELSE runInContextEval("dency", s1, new, x, a, tgt, o)

\* The resolution c of a creator body, in the API the creator is written
\* for: inject(y) / y() and S.inject(y) / y({ scope: S }).
resolveEval(api, st, c, o) ==
    IF api = "dency"
    THEN injectorEval(st, c.inj,
                      IF c.fn = "scopeInject" THEN c.scope ELSE NoScopeArg,
                      c.arg, o)
    ELSE IF c.fn = "scopeInject"
    THEN scopeInjectEval(st, c.scope, c.inj, c.arg, o)
    ELSE injectEval(st, c.inj, c.arg, o)

\* Two definitions can be made from one function only if they have the
\* same creator.
PairInit ==
    /\ \E w \in Worlds :
          defs = [x \in Injectables |-> defineInjectable(w.b[x], w.t[x])]
    /\ \E fn \in {OwnCreators, SharedCreator} :
          /\ \A x, y \in Injectables :
                fn[x] = fn[y] => defs[x].creator = defs[y].creator
          /\ pair = [fn |-> fn,
                     reach |-> [x \in Injectables |-> {x} \cup ReachFrom(x)],
                     i |-> [inst |-> [S \in Scopes |-> createScope],
                            deps |-> [x \in Injectables |-> <<>>],
                            ctx |-> createContext,
                            n |-> 1,
                            out |-> NoPend],
                     d |-> [inst |-> [S \in Scopes |-> createScope],
                            deps |-> [x \in Injectables |-> <<>>],
                            ctx |-> [scope |-> rootScope,
                                     parentInjector |-> NoParent],
                            n |-> 1,
                            out |-> NoPend]]
    /\ overflows = 0
    /\ deps = [x \in Injectables |-> <<>>]
    /\ instances = [S \in Scopes |-> createScope]
    /\ context = createContext
    /\ stack = <<>>
    /\ pend = NoPend
    /\ nextRun = 1
    /\ returned = [S \in Scopes |-> [x \in Injectables |-> {}]]
    /\ dencies = NoDencies
    /\ threw = FALSE

\* The creator runs are numbered up to MaxRuns: a call is made while the
\* runs it can start are within the bound, in both APIs.
PairCanStart(x) ==
    \A p \in {pair.i, pair.d} :
        p.n + Cardinality(pair.reach[x]) - 1 <= MaxRuns

\* The props the application passes to a resolution of x: C's creator takes
\* props, and a creator body resolves C without.
PropsOf(x) == IF x = "C" THEN {"a"} ELSE {NoArg}

\* The oracles of a call of x: only the creators x can reach run, the
\* others are left at "obj".
OraclesOf(x) ==
    {o \in Oracles : \A y \in Injectables \ pair.reach[x] : o[y] = "obj"}

\* The application calls inject(x, a) and x({ props: a }).
pairInject(x, a, o) ==
    /\ PairCanStart(x)
    /\ pair' = [pair EXCEPT
                  !.i = injectEval(@, x, a, o),
                  !.d = injectorEval(@, x, NoScopeArg, a, o)]
    /\ UNCHANGED <<defs, deps, instances, context, stack, pend, nextRun,
                   returned, dencies, threw, overflows>>

\* The application calls S.inject(x, a) and x({ scope: S, props: a }).
pairScopeInject(S, x, a, o) ==
    /\ PairCanStart(x)
    /\ pair' = [pair EXCEPT
                  !.i = scopeInjectEval(@, S, x, a, o),
                  !.d = injectorEval(@, x, S, a, o)]
    /\ UNCHANGED <<defs, deps, instances, context, stack, pend, nextRun,
                   returned, dencies, threw, overflows>>

\* The application calls S.reset() on the scope of either API.
pairReset(S) ==
    /\ pair' = [pair EXCEPT !.i.inst[S] = EmptyMap,
                            !.d.inst[S] = EmptyMap]
    /\ UNCHANGED <<defs, deps, instances, context, stack, pend, nextRun,
                   returned, dencies, threw, overflows>>

PairNext ==
    \/ \E x \in Injectables : \E a \in PropsOf(x) : \E o \in OraclesOf(x) :
          pairInject(x, a, o)
    \/ \E S \in Scopes : \E x \in Injectables : \E a \in PropsOf(x) :
          \E o \in OraclesOf(x) : pairScopeInject(S, x, a, o)
    \/ \E S \in Scopes : pairReset(S)

PairSpec == PairInit /\ [][PairNext]_vars

\* ================================================================ claims
IsSingleton(x) == defs[x].scopeType = SINGLETON_SCOPE
IsTransient(x) == defs[x].scopeType = TRANSIENT_SCOPE
IsScoped(x) == defs[x].scopeType = SCOPED_SCOPE

Objects(vs) == {v \in vs : Truthy(v)}

\* A step in which the application or a creator calls inject(x, ..) or
\* S.inject(x, ..).  (inject either returns a cached instance at once or
\* pushes the frame of x's creator, and S.inject pushes its own frame first:
\* the conjuncts on the stack only spare evaluating the calls on the steps
\* that cannot be one.)
Resolves(x) ==
    \/ /\ \/ stack' = stack /\ pend'.kind = "ret"
          \/ Len(stack') = Len(stack) + 1 /\ stack'[Len(stack')].inj = x
       /\ \E a \in Args : inject(x, a)
    \/ /\ Len(stack') > Len(stack)
       /\ stack'[Len(stack) + 1].kind = "scopeInject"
       /\ stack'[Len(stack) + 1].inj = x
       /\ \E S \in Scopes : \E a \in Args : scopeInject(S, x, a)

\* A step in which the running creator of x returns a value.
CreatorReturns(x) ==
    /\ stack # <<>>
    /\ Top.kind = "inject"
    /\ Top.inj = x
    /\ Top.pc = Len(Body(Top)) + 1
    /\ pend.kind = "none"
    /\ pend'.kind = "ret"
    /\ Len(stack') = Len(stack)

\* C1: every resolution of a singleton, from any scope, returns the one
\* identical instance (no reset of the root scope in between), and only the
\* root scope's Map ever has an entry for it.
C1_SingletonOneInstance ==
    \A x \in Injectables : IsSingleton(x) =>
        /\ Cardinality(returned[rootScope][x]) <= 1
        /\ \A S \in Scopes \ {rootScope} : ~MapHas(instances[S], x)

\* C2: for a scoped injectable, resolutions against distinct scopes return
\* distinct instances, each stored in its own scope's Map only, and all
\* resolutions against one scope (no reset in between) return the same
\* instance.
C2_ScopedOnePerScope ==
    \A x \in Injectables : IsScoped(x) =>
        \A S1 \in Scopes :
            /\ Cardinality(returned[S1][x]) <= 1
            /\ MapHas(instances[S1], x) => instances[S1][x] \in returned[S1][x]
            /\ \A S2 \in Scopes \ {S1} :
                  Objects(returned[S1][x]) \cap Objects(returned[S2][x]) = {}

\* C3: a transient injectable is in no scope's Map in any state; every
\* inject or S.inject of it starts a run of its creator; and the instance
\* that run returns is a new one, returned by no earlier resolution.
C3_TransientAlwaysNew ==
    [][\A x \in Injectables : IsTransient(x) =>
          /\ \A S \in Scopes : ~MapHas(instances'[S], x)
          /\ Resolves(x) =>
                /\ Len(stack') > Len(stack)
                /\ stack'[Len(stack')].kind = "inject"
                /\ stack'[Len(stack')].inj = x
                /\ stack'[Len(stack')].run = nextRun
                /\ nextRun' = nextRun + 1
          /\ CreatorReturns(x) =>
                /\ pend'.val = Produce(IF Truthy(pend'.val) THEN "obj" ELSE "zero",
                                       Top.run, x, Top.arg)
                /\ Truthy(pend'.val) =>
                      \A S \in Scopes : pend'.val \notin returned[S][x]
      ]_vars

\* Two resolutions of a transient have returned two different objects, and
\* no Map holds the transient.
C3_Witness ==
    \E x \in Injectables : \E S \in Scopes :
        /\ IsTransient(x)
        /\ Cardinality(Objects(returned[S][x])) >= 2
        /\ \A U \in Scopes : ~MapHas(instances[U], x)

\* C4: runInContext restores the previous binding on every exit path: when
\* the creator throws, the error reaches the caller unchanged and the cell
\* holds again the binding saved by the call the error leaves.
C4_RestoredOnThrow ==
    [][(pend.kind = "exc" /\ stack # <<>> /\ stack' = Pop(stack)) =>
          /\ pend' = pend
          /\ context' = Top.saved
      ]_vars

\* The frames of creators whose instance is kept in a Map.
CachingFrames(stk) ==
    {i \in 1..Len(stk) : stk[i].kind = "inject" /\ stk[i].tgt # "none"}

\* C5: a resolution of a singleton or scoped x that fails stores nothing:
\* the steps that throw and propagate the error change no Map and leave the
\* Map x was looked up in without an instance of x; a resolution of x against
\* a Map without an instance of x runs the creator in a new run; and when a
\* run returns, its result is stored in that Map and returned.
C5_FailureNotCached ==
    [][/\ pend'.kind = "exc" =>
            /\ instances' = instances
            /\ \A i \in CachingFrames(stack) :
                  ~Truthy(MapGet(instances'[stack[i].tgt], stack[i].inj))
       /\ \A x \in Injectables : ~IsTransient(x) =>
            /\ (/\ Resolves(x)
                /\ ~IsHit(Target(x, context'.scope), x)) =>
                  /\ stack'[Len(stack')].kind = "inject"
                  /\ stack'[Len(stack')].inj = x
                  /\ stack'[Len(stack')].pc = 1
                  /\ stack'[Len(stack')].run = nextRun
                  /\ nextRun' = nextRun + 1
            /\ CreatorReturns(x) =>
                  /\ instances'[Top.tgt] =
                        MapSet(instances[Top.tgt], x, pend'.val)
                  /\ pend'.val = Produce(IF Truthy(pend'.val) THEN "obj"
                                         ELSE "zero", Top.run, x, Top.arg)
      ]_vars

\* A resolution of x has failed (the cell still names x as parent), and a
\* later run of x's creator has returned an object, which the Map holds.
C5_Witness ==
    \E x \in Injectables :
        /\ ~IsTransient(x)
        /\ stack = <<>>
        /\ context.parentCreator = x
        /\ pend.kind = "ret"
        /\ Truthy(pend.val)
        /\ pend.val.inj = x
        /\ pend.val.run >= 2
        /\ MapGet(instances[Target(x, context.scope)], x) = pend.val

\* C6: for a singleton or scoped x, once a resolution against a Map has
\* returned, a later resolution against the same Map (no reset in between)
\* does not invoke the creator again and returns the instance built from the
\* first argument.
C6_FirstResolutionWins ==
    /\ \A i \in CachingFrames(stack) :
          ~FnReturned(stack[i]) => returned[stack[i].tgt][stack[i].inj] = {}
    /\ \A S \in Scopes : \A x \in Injectables : ~IsTransient(x) =>
          \A v, w \in returned[S][x] : v.arg = w.arg

\* C7: when A's creator resolves inject(B) then inject(C), then after A has
\* been resolved (by inject(A) or by S.inject(A), no resolution having
\* failed), A.deps is exactly {B, C} and neither B.deps nor C.deps has A.
C7_DirectDepsOnly ==
    (/\ stack = <<>>
     /\ context = createContext
     /\ defs["A"].creator = <<Call("B"), Call("C")>>
     /\ pend.kind = "ret"
     /\ Truthy(pend.val)
     /\ pend.val.inj = "A") =>
        /\ SetElems(deps["A"]) = {"B", "C"}
        /\ ~SetHas(deps["B"], "A")
        /\ ~SetHas(deps["C"], "A")

\* The creator of the scoped Y, running with ambient scope y.scope, resolves
\* the scoped X through S.inject(X) with S another scope: frame w is that
\* S.inject call.
NestedOtherScope(y, w) ==
    /\ y.kind = "inject"
    /\ IsScoped(y.inj)
    /\ w.kind = "scopeInject"
    /\ IsScoped(w.inj)
    /\ w.scope # y.scope
    /\ w.inj # y.inj

\* C8: when the creator of a scoped Y, resolved with ambient scope S1,
\* resolves a scoped X through S2.inject(X), S2 # S1: X is looked up and
\* stored in S2's Map and S1's Map is left as it is, and Y is stored in S1's
\* Map, S2's being left as it is.
C8_ExplicitScopeWins ==
    [][/\ \A i \in 1..Len(stack') - 1 :
            NestedOtherScope(stack'[i], stack'[i + 1]) =>
              \* S2.inject(X) is called
              /\ Len(stack) = i =>
                    /\ instances' = instances
                    /\ IF Len(stack') = i + 1
                       THEN pend' = Ret(instances[stack'[i + 1].scope]
                                                 [stack'[i + 1].inj])
                       ELSE stack'[i + 2].tgt = stack'[i + 1].scope
              \* the creator of X returns
              /\ (Len(stack) = i + 2 /\ CreatorReturns(stack'[i + 1].inj)) =>
                    /\ instances'[stack'[i + 1].scope] =
                          MapSet(instances[stack'[i + 1].scope],
                                 stack'[i + 1].inj, pend'.val)
                    /\ \A U \in Scopes \ {stack'[i + 1].scope} :
                          instances'[U] = instances[U]
       /\ \A y \in Injectables :
            \* the creator of Y, which has resolved X through S2, returns
            (/\ CreatorReturns(y)
             /\ IsScoped(y)
             /\ \E j \in 1..Len(Body(Top)) :
                   /\ Body(Top)[j].fn = "scopeInject"
                   /\ Body(Top)[j].scope # Top.scope
                   /\ IsScoped(Body(Top)[j].inj)) =>
                /\ instances'[Top.scope] =
                      MapSet(instances[Top.scope], y, pend'.val)
                /\ \A U \in Scopes \ {Top.scope} : instances'[U] = instances[U]
                /\ \A j \in 1..Len(Body(Top)) :
                      (/\ Body(Top)[j].fn = "scopeInject"
                       /\ Body(Top)[j].scope # Top.scope
                       /\ IsScoped(Body(Top)[j].inj)) =>
                          MapHas(instances'[Body(Top)[j].scope],
                                 Body(Top)[j].inj)
      ]_vars

\* S1.inject(A) has returned A's instance, A's creator having resolved B
\* through S2.inject(B): S1's Map holds A and not B, S2's holds B and not A.
C8_Witness ==
    /\ defs["A"].creator[1] = SCall("S2", "B")
    /\ IsScoped("A") /\ IsScoped("B")
    /\ stack = <<>>
    /\ pend.kind = "ret" /\ Truthy(pend.val) /\ pend.val.inj = "A"
    /\ MapGet(instances["S1"], "A") = pend.val
    /\ ~MapHas(instances["S1"], "B")
    /\ MapHas(instances["S2"], "B")
    /\ ~MapHas(instances["S2"], "A")

\* C9: S.reset() empties the Map of S and changes nothing else: not the Map
\* of any other scope, not the cell, not any deps set.
C9_ResetOnlyThatScope ==
    [][\A S \in Scopes :
          (stack = <<>> /\ stack' = <<>> /\ pend'.kind = "none" /\ reset(S)) =>
            /\ instances'[S] = EmptyMap
            /\ \A U \in Scopes \ {S} : instances'[U] = instances[U]
            /\ context' = context
            /\ deps' = deps
            /\ defs' = defs
      ]_vars

\* S1.reset() has emptied S1 and left the others: run 1 was A's creator
\* under S1 (it resolved B through S2 in run 2 and the singleton C in run 3,
\* and there has been no other run), A's instance went to S1's Map, and now
\* S1's Map is empty while S2 still holds B and the root scope C.
C9_Witness ==
    /\ Idle
    /\ nextRun = 4
    /\ IsScoped("A")
    /\ SetHas(deps["A"], "C")
    /\ \A S \in Scopes : ~MapHas(instances[S], "A")
    /\ instances["S1"] = EmptyMap
    /\ MapGet(instances["S2"], "B").run = 2
    /\ MapGet(instances[rootScope], "C").run = 3
    /\ context = createContext

\* What the claim has use return under ambient scope S: the entry of the
\* Map (root for a singleton, S otherwise) when there is one, else undefined.
HeldFor(x, S) ==
    LET T == IF IsSingleton(x) THEN rootScope ELSE S
    IN  IF MapHas(instances[T], x) THEN instances[T][x] ELSE Undefined

\* C10: use(x) and S.use(x) run no creator and change no Map and no deps
\* set, and return the instance the appropriate Map holds for x whenever it
\* has an entry for x, undefined otherwise.
C10_UseReadsTheCache ==
    [][\A x \in Injectables :
          (stack = <<>> /\ stack' = <<>> /\ pend'.kind = "ret") =>
            /\ use(x) =>
                  /\ pend'.val = HeldFor(x, context.scope)
                  /\ UNCHANGED <<instances, deps, context, nextRun>>
            /\ \A S \in Scopes : scopeUse(S, x) =>
                  /\ pend'.val = HeldFor(x, S)
                  /\ UNCHANGED <<instances, deps, context, nextRun>>
      ]_vars

\* The transient car A whose creator injects the scoped engine B.
CarAndEngine ==
    /\ IsTransient("A")
    /\ defs["A"].creator = <<Call("B")>>
    /\ IsScoped("B")

\* C11: for a transient car whose creator injects a scoped engine, the
\* engine's creator returns once per scope (all the resolutions against one
\* scope return one engine), no Map ever holds the car, a scope other than
\* the root holds at most the engine, and a scope under which a car has been
\* returned holds the engine.
C11_OneEnginePerScope ==
    CarAndEngine =>
        \A S \in Scopes :
            /\ Cardinality(returned[S]["B"]) <= 1
            /\ ~MapHas(instances[S], "A")
            /\ S # rootScope => DOMAIN instances[S] \subseteq {"B"}
            /\ returned[S]["A"] # {} =>
                  /\ MapHas(instances[S], "B")
                  /\ MapSize(instances[S]) >= 1

\* The singleton A whose creator injects the scoped B (and then C).
SingletonWithScopedDep ==
    /\ IsSingleton("A")
    /\ defs["A"].creator = <<Call("B"), Call("C")>>
    /\ IsScoped("B")

\* The creator run numbered 1 is one of the singleton A and has just
\* returned: the first resolution ever made, still inside its runInContext.
FirstSingletonReturned ==
    /\ SingletonWithScopedDep
    /\ stack # <<>>
    /\ Top.kind = "inject"
    /\ Top.inj = "A"
    /\ Top.run = 1
    /\ FnReturned(Top)
    /\ pend.kind = "ret"

\* C12: the creator of a singleton consults the root scope's Map but runs
\* under the ambient scope of the call (S for S.inject), with the singleton
\* as parent, and a scoped injectable it injects consults that scope's Map;
\* so when the first resolution ever made is one of the singleton A and its
\* creator has returned, the root scope's Map holds A and no other Map does,
\* and the Map of the scope of the call holds B and no other Map does.
C12_SingletonRunsUnderCallScope ==
    /\ \A i \in 1..Len(stack) :
          (stack[i].kind = "inject" /\ IsSingleton(stack[i].inj)) =>
             /\ stack[i].tgt = rootScope
             /\ (i > 1 /\ stack[i - 1].kind = "scopeInject") =>
                   stack[i].scope = stack[i - 1].scope
             /\ (i = Len(stack) /\ pend.kind = "none") =>
                   context = [scope |-> stack[i].scope,
                              parentCreator |-> stack[i].inj]
             /\ (/\ i < Len(stack)
                 /\ stack[i + 1].kind = "inject"
                 /\ IsScoped(stack[i + 1].inj)) =>
                   stack[i + 1].tgt = stack[i].scope
    /\ FirstSingletonReturned =>
          /\ MapGet(instances[rootScope], "A") = pend.val
          /\ \A U \in Scopes \ {rootScope} : ~MapHas(instances[U], "A")
          /\ MapHas(instances[Top.scope], "B")
          /\ \A U \in Scopes \ {Top.scope} : ~MapHas(instances[U], "B")

\* The behaviour started from the definitions of w.
DefinedBy(w) ==
    defs = [x \in Injectables |-> defineInjectable(w.b[x], w.t[x])]

\* C13: an injectable defined without scopeType is the injectable that
\* defining it with SINGLETON_SCOPE gives, and is resolved as a singleton:
\* from every ambient scope its Map is the root scope's, every run of its
\* creator is for the root scope's Map, and no other Map ever holds it.
C13_DefaultIsSingleton ==
    \A w \in Worlds : DefinedBy(w) =>
        \A x \in Injectables : w.t[x] = NoScopeType =>
            /\ defs[x] = defineInjectable(w.b[x],
                                          WithScopeType(SINGLETON_SCOPE))
            /\ \A S \in Scopes :
                  /\ Target(x, S) = rootScope
                  /\ S # rootScope => ~MapHas(instances[S], x)
                  /\ S # rootScope => returned[S][x] = {}
            /\ \A i \in 1..Len(stack) :
                  (stack[i].kind = "inject" /\ stack[i].inj = x) =>
                      stack[i].tgt = rootScope

\* C, defined without scopeType, has been created by a resolution made
\* under the ambient scope S1, and the root scope's Map holds it.
C13_Witness ==
    \E w \in Worlds :
        /\ DefinedBy(w)
        /\ w.t["C"] = NoScopeType
        /\ stack # <<>>
        /\ Top.kind = "inject"
        /\ Top.inj = "C"
        /\ Top.scope = "S1"
        /\ FnReturned(Top)
        /\ Truthy(pend.val)
        /\ MapGet(instances[rootScope], "C") = pend.val

\* C14: a creator run started by inject(x, a) or S.inject(x, a) is invoked
\* with the argument a of that very call (none when the call has none), and
\* the object the run returns is the one built from that argument.
C14_CreatorGetsCallArgument ==
    [][/\ \A x \in Injectables : \A a \in Args :
            (/\ Len(stack') > Len(stack)
             /\ stack'[Len(stack')].kind = "inject"
             /\ stack'[Len(stack')].inj = x
             /\ \/ inject(x, a)
                \/ \E S \in Scopes : scopeInject(S, x, a)) =>
                  /\ stack'[Len(stack')].arg = a
                  /\ stack'[Len(stack')].pc = 1
       /\ \A x \in Injectables :
            (CreatorReturns(x) /\ Truthy(pend'.val)) =>
                pend'.val = Obj(Top.run, x, Top.arg)
      ]_vars

\* Two resolutions of the transient C, inject(C, a) and inject(C, b) under
\* the root scope, have returned an object built from a and one built from b.
C14_Witness ==
    /\ IsTransient("C")
    /\ \E v, w \in Objects(returned[rootScope]["C"]) :
          v.arg = "a" /\ w.arg = "b"

\* ------------------------------------------------ class container claims
\* The step is a bindClass call for id.
Rebinds(id) ==
    /\ Idle
    /\ stack' = <<>>
    /\ \E K \in Classes : \E ds \in DepsOf(id) :
          \E t \in InstanceTypes \cup {NoInstanceType} :
             bindClass(id, K, ds, t)

\* The step on which the running use of id, its dependencies resolved,
\* returns an instance.
UseReturns(id) ==
    /\ stack # <<>>
    /\ Top.kind = "use"
    /\ Top.id = id
    /\ pend.kind = "none"
    /\ pend'.kind = "ret"
    /\ Len(stack') < Len(stack)

IsBoundAs(id, t) == MapHas(dencies, id) /\ dencies[id].instanceType = t

\* C15: bindClass without instance type binds a 'singleton'; the use of a
\* 'singleton' that has no instance constructs one and stores it; and while
\* the id is not bound again the stored instance stays, and every use that
\* returns returns it without calling the constructor.
C15_SingletonConstructedOnce ==
    [][\A id \in DencyIds :
          /\ (Idle /\ \E K \in Classes : \E ds \in DepsOf(id) :
                         bindClass(id, K, ds, NoInstanceType)) =>
                dencies'[id].instanceType = "singleton"
          /\ (IsBoundAs(id, "singleton") /\ ~Rebinds(id)) =>
                IF Truthy(dencies[id].instance)
                THEN /\ dencies'[id] = dencies[id]
                     /\ UseReturns(id) =>
                           /\ pend'.val = dencies[id].instance
                           /\ nextRun' = nextRun
                ELSE UseReturns(id) =>
                           /\ pend'.val = Construct(nextRun, id, Top.vals)
                           /\ dencies'[id].instance = pend'.val
                           /\ nextRun' = nextRun + 1
      ]_vars

\* The 'singleton' I2 was constructed in constructor call 1 and has not been
\* bound again; a later use of I1 has resolved it (constructor call 3
\* followed it without a constructor call for I2) and got that instance.
C15_Witness ==
    /\ stack = <<>>
    /\ pend = Ret(Obj(3, "I1", <<1>>))
    /\ IsBoundAs("I2", "singleton")
    /\ dencies["I2"].instance = Obj(1, "I2", <<>>)

\* The step on which the running use of id, its dependencies resolved,
\* ends (by returning or by throwing).
UseEnds(id) ==
    /\ stack # <<>>
    /\ Top.kind = "use"
    /\ Top.id = id
    /\ Top.pc = Len(dencies[id].deps) + 1
    /\ pend.kind = "none"
    /\ pend'.kind # "none"

\* C16: a use of a 'transient' that has resolved its dependencies calls the
\* constructor, and when that returns, returns the new instance (the one of
\* this constructor call) and stores nothing: the dency has no instance in
\* any state and the step changes no dency.
C16_TransientAlwaysConstructs ==
    [][\A id \in DencyIds : IsBoundAs(id, "transient") =>
          /\ dencies[id].instance = Undefined
          /\ UseEnds(id) => nextRun' = nextRun + 1
          /\ UseReturns(id) =>
                /\ pend'.val = Construct(nextRun, id, Top.vals)
                /\ dencies' = dencies
      ]_vars

\* The 'singleton' I1 was built from the instance that constructor call 1
\* made of I2; a later use of I1 has resolved the 'transient' I2 again and
\* got the instance of constructor call 3, and I2's dency holds none.
C16_Witness ==
    /\ Len(stack) = 1
    /\ Top.kind = "use"
    /\ Top.id = "I1"
    /\ Top.vals = <<Obj(3, "I2", <<>>)>>
    /\ dencies["I1"].instance = Obj(2, "I1", <<1>>)
    /\ IsBoundAs("I2", "transient")
    /\ dencies["I2"].instance = Undefined

\* id, or an id it depends on directly or through other ids, is not bound.
RECURSIVE HasMissing(_)
HasMissing(id) ==
    \/ ~MapHas(dencies, id)
    \/ \E i \in 1..Len(dencies[id].deps) : HasMissing(dencies[id].deps[i])

\* A use call made by the application for an id with a missing identifier
\* is in progress (no bindClass can happen before it ends).
MissingInProgress ==
    /\ stack # <<>>
    /\ stack[1].kind = "use"
    /\ HasMissing(stack[1].id)

\* What bindClass sets: the dencies without their stored instances.
Bindings(ds) == [id \in DOMAIN ds |-> [ds[id] EXCEPT !.instance = Undefined]]

\* C17 as stated: use(id) for an id that is not bound, or that has an
\* unbound id among its transitive dependencies, ends with the not-found
\* error naming an unbound id, and no step of the call changes the
\* container: neither the bindings nor the stored instances.
C17_FailsWithoutEffect ==
    [][/\ \A id \in DencyIds :
            (Idle /\ ~MapHas(dencies, id) /\ useDency(id)) =>
                pend' = NotFound(id) /\ dencies' = dencies
       /\ MissingInProgress =>
            /\ dencies' = dencies
            /\ stack' = <<>> =>
                  /\ pend'.kind = "exc"
                  /\ pend'.val.kind = "not found"
                  /\ ~MapHas(dencies, pend'.val.inj)
      ]_vars

\* C17, amended: use(id) for an unbound id fails at once with the not-found
\* error naming id and changes nothing.  A use call for a bound id with an
\* unbound id among its transitive dependencies never returns an instance:
\* it ends with an error, which travels to the caller unchanged; a
\* not-found error raised on the way names an id that is not bound; the
\* bindings stay as they are; and the only stored instances that change are
\* those of 'singleton' dependencies without missing identifier, resolved
\* before the failure, which get the instance then constructed.
C17_FailsNamingMissing ==
    [][/\ \A id \in DencyIds :
            (~MapHas(dencies, id) /\ CanUse(id) /\ useDency(id)) =>
                /\ pend' = NotFound(id)
                /\ stack' = stack
                /\ dencies' = dencies
                /\ nextRun' = nextRun
       /\ MissingInProgress =>
            /\ Bindings(dencies') = Bindings(dencies)
            /\ stack' = <<>> => pend'.kind = "exc"
            /\ pend.kind = "exc" => pend' = pend
            /\ (pend.kind = "none" /\ pend'.kind = "exc"
                                   /\ pend'.val.kind = "not found") =>
                  ~MapHas(dencies, pend'.val.inj)
            /\ \A d \in DOMAIN dencies :
                  dencies'[d].instance # dencies[d].instance =>
                     /\ dencies[d].instanceType = "singleton"
                     /\ ~HasMissing(d)
                     /\ dencies[d].instance = Undefined
                     /\ dencies'[d].instance = Construct(nextRun, d, Top.vals)
      ]_vars

\* use(I1) has failed with the not-found error naming I3, which is not
\* bound, after it had resolved the 'singleton' I2: I2's instance, made by
\* the only constructor call so far, stays stored.
C17_Witness ==
    /\ stack = <<>>
    /\ pend = NotFound("I3")
    /\ ~MapHas(dencies, "I3")
    /\ MapHas(dencies, "I1")
    /\ dencies["I1"].deps = <<"I2", "I3">>
    /\ IsBoundAs("I2", "singleton")
    /\ dencies["I2"].instance = Obj(1, "I2", <<>>)
    /\ nextRun = 2

\* ------------------------------------------------------- engine claims
\* C18: once a Map holds an entry for a singleton or scoped x, whatever the
\* value, no resolution against that Map runs x's creator until the Map is
\* reset: a creator run whose result is to be stored in a Map is never in
\* progress while that Map has an entry for its injectable, and the entry
\* is not overwritten.
C18_CachedIsTerminal ==
    [][/\ \A i \in CachingFrames(stack) :
            ~FnReturned(stack[i]) =>
                ~MapHas(instances[stack[i].tgt], stack[i].inj)
       /\ \A S \in Scopes : \A x \in Injectables :
            (MapHas(instances[S], x) /\ ~reset(S)) =>
                /\ MapHas(instances'[S], x)
                /\ instances'[S][x] = instances[S][x]
      ]_vars

\* C19: a plain inject(y) made by the running creator of P adds y to P.deps
\* and changes no other deps set, whether y's instance is found in its Map
\* (no creator run), is missing (a run starts) or y is transient.
C19_EdgeBeforeLookup ==
    [][\A y \in Injectables :
          (InCreator /\ \E a \in Args : inject(y, a)) =>
              /\ deps' = [deps EXCEPT ![Top.inj] = SetAdd(@, y)]
              /\ SetHas(deps'[Top.inj], y)
      ]_vars

\* C20: an S.inject(y) made by the running creator of P records the edge
\* P -> y as a plain inject(y) would: y is added to P.deps, and to no other
\* deps set, so y is not added to its own.
C20_NestedScopeInjectEdge ==
    [][\A y \in Injectables :
          (InCreator /\ \E S \in Scopes : \E a \in Args : scopeInject(S, y, a))
              => /\ SetHas(deps'[Top.inj], y)
                 /\ \A z \in Injectables \ {Top.inj} : deps'[z] = deps[z]
      ]_vars

\* C21: a plain inject(y) made by the application, outside any creator,
\* behaves as in a fresh context also after earlier resolutions have failed:
\* it adds y to no deps set, and a scoped y is looked up in the root scope's
\* Map and, when its creator runs, is stored there.
C21_TopLevelAfterFailure ==
    [][\A y \in Injectables :
          (Idle /\ \E a \in Args : inject(y, a)) =>
              /\ deps' = deps
              /\ (IsScoped(y) /\ stack' # <<>>) =>
                    stack'[Len(stack')].tgt = rootScope
              /\ (IsScoped(y) /\ stack' = <<>>) =>
                    pend'.val = MapGet(instances[rootScope], y)
      ]_vars

\* C22: a runInContext call is entered remembering the binding that held
\* immediately before it, and when it returns normally the cell holds that
\* binding again, at every nesting depth; hence whenever no resolution is in
\* progress and no call of the application has ended with an exception, the
\* cell holds { scope: rootScope } without parent.
C22_StackDiscipline ==
    [][/\ Len(stack') > Len(stack) =>
            /\ stack'[Len(stack) + 1].saved = context
            /\ Len(stack') = Len(stack) + 2 =>
                  stack'[Len(stack) + 2].saved =
                      [scope |-> stack'[Len(stack) + 1].scope,
                       parentCreator |-> stack'[Len(stack) + 1].inj]
       /\ (/\ stack # <<>>
           /\ pend.kind = "ret"
           /\ FnReturned(Top)
           /\ stack' = Pop(stack)) => context' = Top.saved
       /\ (stack = <<>> /\ ~threw) => context = createContext
       /\ (stack' = <<>> /\ ~threw') => context' = createContext
      ]_vars

\* S1.inject(A) has returned, A's creator having resolved B through
\* S2.inject(B): four runInContext calls, nested, have returned and the cell
\* is the initial one.
C22_Witness ==
    /\ stack = <<>>
    /\ ~threw
    /\ pend.kind = "ret"
    /\ Truthy(pend.val)
    /\ pend.val.inj = "A"
    /\ MapGet(instances["S1"], "A") = pend.val
    /\ MapHas(instances["S2"], "B")
    /\ context = createContext
    /\ nextRun > 1

\* The running creator, entered under scope Top.scope, has received the
\* value of a nested S.inject it made as its previous resolution, has caught
\* no error, and now makes the plain inject(y).
AfterNestedScopeInject(y) ==
    /\ InCreator
    /\ Top.pc >= 2
    /\ Body(Top)[Top.pc - 1].fn = "scopeInject"
    /\ ~Top.caught
    /\ \E a \in Args : inject(y, a)

\* C23: when a nested S2.inject(B) has returned inside A's creator, the rest
\* of the creator runs under the binding it had before: the scope A's
\* creator was entered with and A as parent.  The inject(y) that follows
\* records the edge A -> y, and a scoped y is looked up in the Map of A's
\* scope and, on a miss, its creator runs for that Map.
C23_RestoredAfterNestedReturn ==
    [][\A y \in Injectables : AfterNestedScopeInject(y) =>
          /\ context = [scope |-> Top.scope, parentCreator |-> Top.inj]
          /\ deps' = [deps EXCEPT ![Top.inj] = SetAdd(@, y)]
          /\ SetHas(deps'[Top.inj], y)
          /\ IsScoped(y) =>
                IF Len(stack') > Len(stack)
                THEN /\ stack'[Len(stack')].tgt = Top.scope
                     /\ stack'[Len(stack')].scope = Top.scope
                ELSE pend'.val = MapGet(instances[Top.scope], y)
      ]_vars

\* A's creator, entered under S1, has resolved B through S2.inject(B), which
\* returned, and its inject(C) of the scoped C is running C's creator for
\* S1's Map, with the edge A -> C recorded.
C23_Witness ==
    /\ Len(stack) >= 2
    /\ stack[Len(stack) - 1].kind = "inject"
    /\ stack[Len(stack) - 1].inj = "A"
    /\ stack[Len(stack) - 1].scope = "S1"
    /\ stack[Len(stack) - 1].pc = 2
    /\ ~stack[Len(stack) - 1].caught
    /\ Body(stack[Len(stack) - 1])[1].fn = "scopeInject"
    /\ Body(stack[Len(stack) - 1])[1].scope = "S2"
    /\ MapHas(instances["S2"], "B")
    /\ Top.kind = "inject"
    /\ Top.inj = "C"
    /\ IsScoped("C")
    /\ Top.tgt = "S1"
    /\ context = [scope |-> "S1", parentCreator |-> "C"]
    /\ SetHas(deps["A"], "C")

\* The Map in which the result of a creator run of x, entered with ambient
\* scope S, belongs: the root scope's for a singleton, S's for a scoped.
HomeOf(x, S) == IF IsSingleton(x) THEN rootScope ELSE S

\* C24: cache membership.  A Map never has an entry for a transient and a
\* scope other than the root has entries for scoped injectables only; a
\* creator is entered with its frame's scope as ambient scope; an entry is
\* written only when a creator run of a singleton or scoped x returns, into
\* the one Map HomeOf(x, ambient scope of the run), so no other Map holds
\* that run's result; and the entry stays as written until that Map is reset.
C24_CacheMembership ==
    [][/\ \A S \in Scopes : \A x \in DOMAIN instances[S] :
            /\ ~IsTransient(x)
            /\ S # rootScope => IsScoped(x)
       /\ (Len(stack') > Len(stack) /\ stack'[Len(stack')].kind = "inject")
            => context'.scope = stack'[Len(stack')].scope
       /\ (instances' # instances /\ \A S \in Scopes : ~reset(S)) =>
            /\ CreatorReturns(Top.inj)
            /\ ~IsTransient(Top.inj)
            /\ instances' = [instances EXCEPT ![HomeOf(Top.inj, Top.scope)] =
                                MapSet(@, Top.inj, pend'.val)]
       /\ \A S, U \in Scopes : \A x \in Injectables :
            (/\ S # U
             /\ Truthy(MapGet(instances[S], x))
             /\ Truthy(MapGet(instances[U], x))) =>
                instances[S][x].run # instances[U][x].run
       /\ \A S \in Scopes : \A x \in Injectables :
            (MapHas(instances[S], x) /\ ~reset(S)) =>
                MapGet(instances'[S], x) = instances[S][x]
      ]_vars

\* C25: no step removes an entry from a deps set or reorders one; a step
\* adds at most one entry, and y is added to X.deps only by a resolution of
\* y that finds X as parent of the binding: a plain inject(y) with X the
\* parent in the cell, or an S.inject(y) with X = y, which installs y as
\* parent before its inject(y) reads the cell.
C25_DepsOnlyGrow ==
    [][\A X \in Injectables :
          /\ Len(deps'[X]) >= Len(deps[X])
          /\ SubSeq(deps'[X], 1, Len(deps[X])) = deps[X]
          /\ deps'[X] # deps[X] =>
                /\ Len(deps'[X]) = Len(deps[X]) + 1
                /\ \A Z \in Injectables \ {X} : deps'[Z] = deps[Z]
                /\ LET y == deps'[X][Len(deps'[X])]
                   IN  \/ /\ context.parentCreator = X
                          /\ \E a \in Args : inject(y, a)
                       \/ /\ y = X
                          /\ \E S \in Scopes : \E a \in Args :
                                scopeInject(S, y, a)
                          /\ stack'[Len(stack) + 1].kind = "scopeInject"
                          /\ stack'[Len(stack) + 1].inj = X
      ]_vars

\* A's creator has recorded B and C, a call of the application has failed,
\* and every scope, the root included, has since been reset: the edges are
\* still there.
C25_Witness ==
    /\ Idle
    /\ threw
    /\ \A S \in Scopes : instances[S] = EmptyMap
    /\ SetHas(deps["A"], "B")
    /\ SetHas(deps["A"], "C")
    /\ nextRun > MaxRuns

\* The injectables whose resolution the creator run of frame i has invoked
\* so far, in the order of the calls: the call at pc has been made when a
\* frame is above i or a completion is on its way to i.
InvokedBy(i) ==
    LET f == stack[i]
        made == IF i = Len(stack) /\ pend.kind = "none"
                THEN f.pc - 1 ELSE f.pc
        m == IF made > Len(Body(f)) THEN Len(Body(f)) ELSE made
    IN  [j \in 1..m |-> Body(f)[j].inj]

\* C26: edges are recorded in pre-order.  While a creator of P is running,
\* P.deps begins with the injectables whose resolution this run has invoked
\* so far, in the order of the calls; so the edge P -> Y is there as soon as
\* the resolution of Y is called, before Y's creator starts and before any
\* edge Y's creator records.
C26_EdgesInPreOrder ==
    \A i \in 1..Len(stack) :
        stack[i].kind = "inject" =>
            LET P == stack[i].inj
                made == InvokedBy(i)
            IN  /\ Len(deps[P]) >= Len(made)
                /\ SubSeq(deps[P], 1, Len(made)) = made

\* The objects the Maps hold.
Held == UNION {{instances[S][x] : x \in DOMAIN instances[S]} : S \in Scopes}

\* C27: S.reset() leaves no entry in S's Map.  While the Map has no entry
\* for x (x a singleton for the root scope, a scoped injectable for any
\* scope), S.use(x) returns undefined and a resolution of x that consults
\* the Map starts a new run of the creator; when that run returns an object
\* it is stored in the Map and returned, and it is a new object: it carries
\* the number of its run, which is greater than that of every object made
\* before, so it is none of the objects held before the reset.
C27_ResetMakesAbsent ==
    [][/\ \A v \in Held : Truthy(v) => v.run < nextRun
       /\ \A i \in 1..Len(stack) : stack[i].kind = "inject" =>
             /\ stack[i].run < nextRun
             /\ ~FnReturned(stack[i]) =>
                   \A v \in Held : v.run # stack[i].run
       /\ \A S \in Scopes : \A x \in Injectables :
             /\ reset(S) => ~MapHas(instances'[S], x)
             /\ (~IsTransient(x) /\ HomeOf(x, S) = S
                 /\ ~MapHas(instances[S], x)) =>
                   /\ scopeUse(S, x) => pend' = Ret(Undefined)
                   /\ (Resolves(x) /\ Target(x, context'.scope) = S) =>
                         /\ Len(stack') > Len(stack)
                         /\ stack'[Len(stack')].kind = "inject"
                         /\ stack'[Len(stack')].inj = x
                         /\ stack'[Len(stack')].tgt = S
                         /\ stack'[Len(stack')].run = nextRun
                         /\ nextRun' = nextRun + 1
             /\ (CreatorReturns(x) /\ Top.tgt = S /\ Truthy(pend'.val)) =>
                   /\ pend'.val.run = Top.run
                   /\ MapGet(instances'[S], x) = pend'.val
      ]_vars

\* B, a singleton whose creator injects the scoped C, was created in run 1
\* by S1.inject(B) (C, created inside that run, is S1's object of run 2);
\* the root scope has been reset since, so that its Map has returned no
\* earlier B; and S1.inject(B) has run B's creator again, which found C in
\* S1: the root Map holds the new B, the object of run 3.
C27_Witness ==
    /\ ~threw
    /\ IsSingleton("B")
    /\ pend = Ret(Obj(3, "B", NoArg))
    /\ MapGet(instances[rootScope], "B") = Obj(3, "B", NoArg)
    /\ MapGet(instances["S1"], "C") = Obj(2, "C", NoArg)
    /\ returned[rootScope]["B"] = {Obj(3, "B", NoArg)}
    /\ stack = <<>>

\* C28: the cell always holds a binding: it is never undefined, no binding
\* waiting to be put back is, and no call ever ends with the error of
\* getContext, whatever has failed before.
C28_AlwaysInContext ==
    /\ context # NoContext
    /\ context.scope \in Scopes
    /\ \A i \in 1..Len(stack) :
          stack[i].saved # NoContext /\ stack[i].saved.scope \in Scopes
    /\ pend # OutOfContext

\* After a call of the application has failed, A's creator, started through
\* S.inject, has resolved a dependency whose creator is running: the nested
\* inject has read the cell.
C28_Witness ==
    /\ threw
    /\ Len(stack) = 3
    /\ stack[1].kind = "scopeInject"
    /\ stack[2].kind = "inject"
    /\ stack[3].kind = "inject"
    /\ pend.kind = "none"
    /\ context = [scope |-> stack[3].scope, parentCreator |-> stack[3].inj]

\* ------------------------------------------------- termination claims
\* A resolution of x, started by the application, is in progress.
Resolving(x) == stack # <<>> /\ stack[1].inj = x

\* A resolution of an injectable on a cycle gives nothing back: no creator
\* on the cycle gets past the resolution it makes, no Map receives an
\* instance of an injectable on the cycle, no resolution of one has returned
\* a value, and the only error there is is the host's RangeError.
CycleNeverReturns ==
    /\ \A S \in Scopes : \A x \in Injectables :
          OnCycle(x) => ~MapHas(instances[S], x) /\ returned[S][x] = {}
    /\ \A i \in 1..Len(stack) :
          (stack[i].kind = "inject" /\ OnCycle(stack[i].inj)) =>
              stack[i].pc = 1
    /\ \A x \in Injectables : (OnCycle(x) /\ Resolving(x)) =>
          /\ pend.kind # "ret"
          /\ \A i \in 1..Len(stack) : OnCycle(stack[i].inj)
    /\ pend.kind = "exc" => pend = RangeError

\* The call of the application ends in this step.
CallEnds == stack # <<>> /\ stack' = <<>>

\* C29: with creators that do not throw, every resolution ends: it returns
\* a value to the application, or the host's RangeError reaches it (the
\* only error there is, thrown where the call stack is used up).  That of
\* an injectable on a cycle, whatever the lifetimes, never returns a value:
\* each inject on the cycle misses, since an instance is stored only after
\* its creator has returned, and starts the next creator, at the first call
\* on the cycle like at every later one (nothing detects or rejects the
\* cycle), until the host's call stack is used up and its RangeError reaches
\* the application.
C29_TerminatesUnlessCyclic ==
    /\ (stack # <<>>) ~> (stack = <<>> /\ pend.kind # "none")
    /\ []CycleNeverReturns
    /\ [][/\ CallEnds =>
                /\ pend'.kind = "ret" \/ pend' = RangeError
                /\ OnCycle(stack[1].inj) => pend' = RangeError
          /\ \A x \in Injectables : (OnCycle(x) /\ Resolves(x)) =>
                /\ Len(stack') > Len(stack)
                /\ stack'[Len(stack')].inj = x
                /\ stack'[Len(stack')].run = nextRun]_vars

\* inject(A) on the cycle A -> B -> A has ended with the host's RangeError:
\* the creators of A and B were entered in turn, both edges are recorded, no
\* Map has an entry, and the cell is left with the binding of a creator of A.
C29_Witness ==
    /\ OnCycle("A")
    /\ stack = <<>>
    /\ pend = RangeError
    /\ threw
    /\ deps = [A |-> <<"B">>, B |-> <<"A">>, C |-> <<>>]
    /\ context = [scope |-> rootScope, parentCreator |-> "A"]
    /\ \A S \in Scopes : instances[S] = EmptyMap

\* What tells two returned or cached values apart: the creator run that made
\* an object; 0 and undefined are primitives.
IdOf(v) == <<v.kind, v.run>>

\* The creator functions cached in scope S by each API, and the instance
\* cached for the creator f.
CachedInjectable(S) == {pair.fn[x] : x \in DOMAIN pair.i.inst[S]}
CachedDency(S) == DOMAIN pair.d.inst[S]
InstancesOfInjectable(S, f) ==
    {IdOf(pair.i.inst[S][x]) : x \in {y \in DOMAIN pair.i.inst[S] : pair.fn[y] = f}}

\* Both APIs have cached the same creators in every scope, with the same
\* instances, and the last call returned the same instance or failed in the
\* same creator run in both.
SameCaching ==
    /\ \A S \in Scopes :
          /\ CachedInjectable(S) = CachedDency(S)
          /\ \A f \in CachedDency(S) :
                InstancesOfInjectable(S, f) = {IdOf(pair.d.inst[S][f])}
    /\ pair.i.out.kind = pair.d.out.kind
    /\ IdOf(pair.i.out.val) = IdOf(pair.d.out.val)

\* C30 (as stated): after the same sequence of resolutions over the same
\* factories and lifetimes, injectable.ts and dency.ts have the same set of
\* cached factories in every scope and in the root, and the same identities
\* among the instances returned.
C30_SameCaching == SameCaching

\* C30 (amended): the same, each factory function being given to one
\* definition only: dency.ts caches under the factory function, injectable.ts
\* under the definition.
C30_SameCachingOwnFactories == (pair.fn = OwnCreators) => SameCaching

\* Each definition has its own factory; S1.inject(A) / A({ scope: S1 }) has
\* cached the singleton A under the root and, through A's creator, B in S2
\* and C in S1, in both APIs.
C30_Witness ==
    /\ pair.fn = OwnCreators
    /\ \A p \in {pair.i, pair.d} : p.out.kind = "ret" /\ p.out.val.inj = "A"
    /\ DOMAIN pair.i.inst[rootScope] = {"A"}
    /\ DOMAIN pair.d.inst[rootScope] = {"fA"}
    /\ DOMAIN pair.i.inst["S2"] = {"B"}
    /\ DOMAIN pair.d.inst["S2"] = {"fB"}
    /\ DOMAIN pair.i.inst["S1"] = {"C"}
    /\ DOMAIN pair.d.inst["S1"] = {"fC"}

\* C31: for a transient x, no Map has an entry for x, and use(x) and
\* S.use(x), for every scope S, return undefined, whatever was resolved
\* before.
C31_UseOfTransientIsAbsent ==
    [][\A x \in Injectables : IsTransient(x) =>
          /\ \A S \in Scopes : ~MapHas(instances[S], x)
          /\ use(x) => pend' = Ret(Undefined)
          /\ \A S \in Scopes : scopeUse(S, x) => pend' = Ret(Undefined)
      ]_vars

\* The transient A has been resolved twice under one scope, both
\* resolutions returning an object of their own; no call has failed, no Map
\* holds A, and a use has just returned undefined.
C31_Witness ==
    /\ IsTransient("A")
    /\ ~threw
    /\ \E S \in Scopes : Cardinality(Objects(returned[S]["A"])) = 2
    /\ \A S \in Scopes : ~MapHas(instances[S], "A")
    /\ stack = <<>>
    /\ pend = Ret(Undefined)

\* The creator of x resolves a scoped injectable with inject, under the
\* ambient scope.
InjectsScoped(x) ==
    \E i \in 1..Len(defs[x].creator) :
        /\ Plain(defs[x].creator[i]).fn = "inject"
        /\ IsScoped(Plain(defs[x].creator[i]).inj)

\* C32: once a singleton x whose creator injects a scoped dependency is
\* stored in the root scope's Map (its first resolution, under some scope S1,
\* has returned), every later resolution of x, under whatever scope, is a
\* hit: it returns the stored instance, no creator runs and no Map changes,
\* so no other scope gains an entry for the dependency and the dependency's
\* creator is not run again.
C32_SingletonKeepsFirstScope ==
    [][\A x \in Injectables :
          (/\ IsSingleton(x)
           /\ InjectsScoped(x)
           /\ MapHas(instances[rootScope], x)
           /\ \E a \in Args : inject(x, a)) =>
             /\ stack' = stack
             /\ pend' = Ret(instances[rootScope][x])
             /\ nextRun' = nextRun
             /\ instances' = instances
      ]_vars

\* The id is bound with this instance type.
BoundAs(id, t) == MapHas(dencies, id) /\ dencies[id].instanceType = t

\* The use call on top of the stack ends in this step: it returns, or an
\* error leaves it.
UseCallEnds == stack # <<>> /\ Top.kind = "use" /\ stack' = Pop(stack)

\* An instance is returned only by a use call that has resolved all the
\* dependencies of its id, in the order of the deps list.
DepsBeforeInstance ==
    (pend.kind # "ret" /\ pend'.kind = "ret") =>
        /\ UseCallEnds
        /\ Len(Top.vals) = Len(dencies[Top.id].deps)

\* The use call that ends has constructed every 'transient' dependency of
\* its 'singleton' id anew: the instance of the dependency was made after
\* the stored instance of id.
TransientDepsConstructed ==
    \A i \in 1..Len(dencies[Top.id].deps) :
        BoundAs(dencies[Top.id].deps[i], "transient") =>
            /\ i <= Len(Top.vals)
            /\ Truthy(dencies[Top.id].instance) =>
                  /\ pend' = Ret(dencies[Top.id].instance)
                  /\ Top.vals[i].run > dencies[Top.id].instance.run
                  /\ Top.vals[i].run # dencies[Top.id].instance.arg[i]

\* The id of the use call that ends is bound as 'scoped', or one of its
\* dependencies is.
ScopedInvolved ==
    \/ BoundAs(Top.id, "scoped")
    \/ \E i \in 1..Len(dencies[Top.id].deps) :
          BoundAs(dencies[Top.id].deps[i], "scoped")

\* C33 (as stated): use(id) resolves the dependencies of id before it looks
\* at the stored instance, on every call; every use of a 'singleton' with a
\* 'transient' dependency constructs that dependency anew, also when the
\* singleton is stored; and every use of a binding that is 'scoped' or has a
\* 'scoped' dependency fails with 'not implemented'.
C33_DepsResolvedOnEveryCall ==
    [][/\ DepsBeforeInstance
       /\ UseCallEnds =>
             /\ BoundAs(Top.id, "singleton") => TransientDepsConstructed
             /\ ScopedInvolved => pend' = NotImplemented
      ]_vars

\* C33 (amended): the same, for the calls that return as to the 'transient'
\* dependencies; and a use of a binding that is 'scoped' or has a 'scoped'
\* dependency never returns: it fails with 'not implemented', unless the
\* resolution of a dependency raises another error (not found, or the error
\* of a constructor) first.
C33_DepsResolvedOnEveryReturn ==
    [][/\ DepsBeforeInstance
       /\ UseCallEnds =>
             /\ (BoundAs(Top.id, "singleton") /\ pend'.kind = "ret") =>
                   TransientDepsConstructed
             /\ ScopedInvolved =>
                   /\ pend'.kind = "exc"
                   /\ \/ pend' = NotImplemented
                      \/ /\ Len(Top.vals) < Len(dencies[Top.id].deps)
                         /\ pend'.val.kind \in {"not found", "error"}
      ]_vars

\* I1 is a 'singleton' with the 'transient' dependency I2.  Its instance was
\* made by constructor call 2 from the I2 of call 1; a later use(I1) has
\* constructed I2 again (call 3) and returned the stored instance.
C33_Witness ==
    /\ BoundAs("I1", "singleton")
    /\ dencies["I1"].deps = <<"I2">>
    /\ BoundAs("I2", "transient")
    /\ dencies["I2"].deps = <<>>
    /\ dencies["I1"].instance = Obj(2, "I1", <<1>>)
    /\ nextRun = 4
    /\ stack = <<>>
    /\ pend = Ret(dencies["I1"].instance)

====
